---- MODULE Spec2Model ----
(***************************************************************************)
(* Model of scripts/generate_diagram.py: the static validator              *)
(* (CodeValidator, validate_code), the sanitizers (sanitize_name,          *)
(* sanitize_output), path confinement (validate_output_path), the          *)
(* sandboxed executor (execute_diagram_code) and the pipeline              *)
(* (generate_diagram).                                                     *)
(*                                                                         *)
(* A Python str is a sequence of one-character strings, so that split,     *)
(* startswith, replace, re.sub and slicing are computed character by       *)
(* character as the interpreter computes them.                             *)
(***************************************************************************)
EXTENDS Integers, Sequences, FiniteSets, TLC

\* ------------------------------------------------------------------------
\* Python str primitives used by the program
\* ------------------------------------------------------------------------

\* The elements of a sequence.
Range(s) == { s[i] : i \in DOMAIN s }

\* The lists of a list, one after the other: the n-th element is the one
\* that n - 1 elements stand before.
concat(lists) ==
    LET places == UNION { { << i, j >> : j \in DOMAIN lists[i] } : i \in DOMAIN lists }
        before(p) == Cardinality({ q \in places :
                                     q[1] < p[1] \/ (q[1] = p[1] /\ q[2] < p[2]) })
        place(n) == CHOOSE p \in places : before(p) = n - 1
    IN  [n \in 1..Cardinality(places) |-> lists[place(n)[1]][place(n)[2]]]

\* s.startswith(p)
str_startswith(s, p) ==
    /\ Len(p) <= Len(s)
    /\ SubSeq(s, 1, Len(p)) = p

\* s[:n]
str_slice_to(s, n) ==
    IF Len(s) <= n THEN s ELSE SubSeq(s, 1, n)

\* The index of the first occurrence of the character c in s, 0 when absent.
str_find(s, c) ==
    IF \E i \in 1..Len(s) : s[i] = c
    THEN CHOOSE i \in 1..Len(s) : s[i] = c /\ \A j \in 1..(i - 1) : s[j] # c
    ELSE 0

\* s.split(sep) for a one-character separator: the list of the pieces.
RECURSIVE str_split(_, _)
str_split(s, sep) ==
    LET i == str_find(s, sep)
    IN  IF i = 0
        THEN << s >>
        ELSE << SubSeq(s, 1, i - 1) >> \o str_split(SubSeq(s, i + 1, Len(s)), sep)

\* sep.join(parts)
RECURSIVE str_join(_, _)
str_join(parts, sep) ==
    IF Len(parts) = 0 THEN << >>
    ELSE IF Len(parts) = 1 THEN parts[1]
    ELSE parts[1] \o sep \o str_join(Tail(parts), sep)

\* re.sub(r'[^...]', '', s): the characters of s that are in the class, in
\* their order.
re_sub_keep(s, kept) ==
    LET InClass(c) == c \in kept
    IN  SelectSeq(s, InClass)

\* re.sub(r'[...]', '', s): the characters of s that are not in the class,
\* in their order.
re_sub_delete(s, removed) ==
    LET NotInClass(c) == c \notin removed
    IN  SelectSeq(s, NotInClass)

\* The number of dots that end right before s[i].
dots_before(s, i) ==
    LET stops == { j \in 1..(i - 1) : s[j] # "." }
    IN  IF stops = {} THEN i - 1
        ELSE i - 1 - (CHOOSE j \in stops : \A k \in stops : k <= j)

\* s.replace('..', ''): str.replace takes the occurrences from left to
\* right, each starting where the one before ended. So in a run of dots the
\* first two are an occurrence, the next two the next, and a dot is left
\* over only as the last of a run of odd length: s[i] stays when it is no
\* dot, or when an even number of dots comes right before it and no dot
\* right after it.
str_replace_dotdot(s) ==
    LET stays(i) ==
            \/ s[i] # "."
            \/ /\ dots_before(s, i) % 2 = 0
               /\ (i = Len(s) \/ s[i + 1] # ".")
        marked == [i \in 1..Len(s) |-> << s[i], stays(i) >>]
        Stays(m) == m[2]
        left == SelectSeq(marked, Stays)
    IN  [i \in 1..Len(left) |-> left[i][1]]

\* ------------------------------------------------------------------------
\* SECURITY CONFIGURATION: the values the module-level tables are built with
\* ------------------------------------------------------------------------

\* Full whitelist of allowed imports for diagram generation.
ALLOWED_IMPORTS ==
    { <<"d","i","a","g","r","a","m","s">>,
      <<"d","i","a","g","r","a","m","s",".","a","z","u","r","e">>,
      <<"d","i","a","g","r","a","m","s",".","a","z","u","r","e",".","a","i","m","a","c","h","i","n","e","l","e","a","r","n","i","n","g">>,
      <<"d","i","a","g","r","a","m","s",".","a","z","u","r","e",".","a","n","a","l","y","t","i","c","s">>,
      <<"d","i","a","g","r","a","m","s",".","a","z","u","r","e",".","a","z","u","r","e","s","t","a","c","k">>,
      <<"d","i","a","g","r","a","m","s",".","a","z","u","r","e",".","b","l","o","c","k","c","h","a","i","n">>,
      <<"d","i","a","g","r","a","m","s",".","a","z","u","r","e",".","c","o","m","p","u","t","e">>,
      <<"d","i","a","g","r","a","m","s",".","a","z","u","r","e",".","c","o","n","t","a","i","n","e","r","s">>,
      <<"d","i","a","g","r","a","m","s",".","a","z","u","r","e",".","d","a","t","a","b","a","s","e">>,
      <<"d","i","a","g","r","a","m","s",".","a","z","u","r","e",".","d","a","t","a","b","a","s","e","s">>,
      <<"d","i","a","g","r","a","m","s",".","a","z","u","r","e",".","d","e","v","o","p","s">>,
      <<"d","i","a","g","r","a","m","s",".","a","z","u","r","e",".","g","e","n","e","r","a","l">>,
      <<"d","i","a","g","r","a","m","s",".","a","z","u","r","e",".","i","d","e","n","t","i","t","y">>,
      <<"d","i","a","g","r","a","m","s",".","a","z","u","r","e",".","i","n","t","e","g","r","a","t","i","o","n">>,
      <<"d","i","a","g","r","a","m","s",".","a","z","u","r","e",".","i","n","t","u","n","e">>,
      <<"d","i","a","g","r","a","m","s",".","a","z","u","r","e",".","i","o","t">>,
      <<"d","i","a","g","r","a","m","s",".","a","z","u","r","e",".","m","a","n","a","g","e","m","e","n","t","g","o","v","e","r","n","a","n","c","e">>,
      <<"d","i","a","g","r","a","m","s",".","a","z","u","r","e",".","m","i","g","r","a","t","i","o","n">>,
      <<"d","i","a","g","r","a","m","s",".","a","z","u","r","e",".","m","i","x","e","d","r","e","a","l","i","t","y">>,
      <<"d","i","a","g","r","a","m","s",".","a","z","u","r","e",".","m","l">>,
      <<"d","i","a","g","r","a","m","s",".","a","z","u","r","e",".","m","o","n","i","t","o","r">>,
      <<"d","i","a","g","r","a","m","s",".","a","z","u","r","e",".","n","e","t","w","o","r","k">>,
      <<"d","i","a","g","r","a","m","s",".","a","z","u","r","e",".","n","e","t","w","o","r","k","i","n","g">>,
      <<"d","i","a","g","r","a","m","s",".","a","z","u","r","e",".","s","e","c","u","r","i","t","y">>,
      <<"d","i","a","g","r","a","m","s",".","a","z","u","r","e",".","s","t","o","r","a","g","e">>,
      <<"d","i","a","g","r","a","m","s",".","a","z","u","r","e",".","w","e","b">>,
      <<"d","i","a","g","r","a","m","s",".","o","n","p","r","e","m">>,
      <<"d","i","a","g","r","a","m","s",".","o","n","p","r","e","m",".","c","l","i","e","n","t">>,
      <<"d","i","a","g","r","a","m","s",".","o","n","p","r","e","m",".","c","o","m","p","u","t","e">>,
      <<"d","i","a","g","r","a","m","s",".","o","n","p","r","e","m",".","d","a","t","a","b","a","s","e">>,
      <<"d","i","a","g","r","a","m","s",".","o","n","p","r","e","m",".","n","e","t","w","o","r","k">>,
      <<"d","i","a","g","r","a","m","s",".","g","e","n","e","r","i","c">>,
      <<"d","i","a","g","r","a","m","s",".","g","e","n","e","r","i","c",".","b","l","a","n","k">>,
      <<"d","i","a","g","r","a","m","s",".","g","e","n","e","r","i","c",".","c","o","m","p","u","t","e">>,
      <<"d","i","a","g","r","a","m","s",".","g","e","n","e","r","i","c",".","d","a","t","a","b","a","s","e">>,
      <<"d","i","a","g","r","a","m","s",".","g","e","n","e","r","i","c",".","s","t","o","r","a","g","e">>,
      <<"d","i","a","g","r","a","m","s",".","p","r","o","g","r","a","m","m","i","n","g">>,
      <<"d","i","a","g","r","a","m","s",".","p","r","o","g","r","a","m","m","i","n","g",".","f","l","o","w","c","h","a","r","t">>,
      <<"d","i","a","g","r","a","m","s",".","s","a","a","s">>,
      <<"d","i","a","g","r","a","m","s",".","s","a","a","s",".","c","h","a","t">>,
      <<"d","i","a","g","r","a","m","s",".","s","a","a","s",".","e","r","p">>,
      <<"d","i","a","g","r","a","m","s",".","s","a","a","s",".","c","d","n">>,
      <<"d","i","a","g","r","a","m","s",".","c","u","s","t","o","m">>,
      <<"g","r","a","p","h","v","i","z">>,
      <<"m","a","t","p","l","o","t","l","i","b">>,
      <<"m","a","t","p","l","o","t","l","i","b",".","p","y","p","l","o","t">>,
      <<"m","a","t","p","l","o","t","l","i","b",".","p","a","t","c","h","e","s">>,
      <<"m","a","t","p","l","o","t","l","i","b",".","d","a","t","e","s">>,
      <<"n","u","m","p","y">>,
      <<"s","v","g","w","r","i","t","e">>,
      <<"c","a","i","r","o","s","v","g">>,
      <<"d","a","t","e","t","i","m","e">>,
      <<"c","o","l","l","e","c","t","i","o","n","s">>,
      <<"p","a","t","h","l","i","b">> }

\* Blocked dangerous builtins.
BLOCKED_BUILTINS ==
    { <<"e","x","e","c">>,
      <<"e","v","a","l">>,
      <<"c","o","m","p","i","l","e">>,
      <<"o","p","e","n">>,
      <<"_","_","i","m","p","o","r","t","_","_">>,
      <<"g","l","o","b","a","l","s">>,
      <<"l","o","c","a","l","s">>,
      <<"v","a","r","s">>,
      <<"d","i","r">>,
      <<"g","e","t","a","t","t","r">>,
      <<"s","e","t","a","t","t","r">>,
      <<"d","e","l","a","t","t","r">>,
      <<"h","a","s","a","t","t","r">>,
      <<"b","r","e","a","k","p","o","i","n","t">>,
      <<"i","n","p","u","t">>,
      <<"h","e","l","p">> }

\* Blocked dangerous attribute access patterns.
BLOCKED_ATTRIBUTES ==
    { <<"_","_","c","l","a","s","s","_","_">>,
      <<"_","_","b","a","s","e","s","_","_">>,
      <<"_","_","s","u","b","c","l","a","s","s","e","s","_","_">>,
      <<"_","_","g","l","o","b","a","l","s","_","_">>,
      <<"_","_","c","o","d","e","_","_">>,
      <<"_","_","b","u","i","l","t","i","n","s","_","_">>,
      <<"_","_","i","m","p","o","r","t","_","_">>,
      <<"_","_","l","o","a","d","e","r","_","_">>,
      <<"_","_","s","p","e","c","_","_">>,
      <<"_","_","d","i","c","t","_","_">>,
      <<"_","_","m","r","o","_","_">>,
      <<"_","_","i","n","i","t","_","s","u","b","c","l","a","s","s","_","_">> }

\* Explicitly blocked imports (even if partial match).
BLOCKED_IMPORTS ==
    { <<"o","s">>,
      <<"s","y","s">>,
      <<"s","u","b","p","r","o","c","e","s","s">>,
      <<"s","o","c","k","e","t">>,
      <<"u","r","l","l","i","b">>,
      <<"r","e","q","u","e","s","t","s">>,
      <<"h","t","t","p">>,
      <<"p","i","c","k","l","e">>,
      <<"s","h","e","l","v","e">>,
      <<"c","t","y","p","e","s">>,
      <<"i","m","p","o","r","t","l","i","b">>,
      <<"s","h","u","t","i","l">>,
      <<"g","l","o","b">>,
      <<"f","n","m","a","t","c","h">>,
      <<"i","o">>,
      <<"b","u","i","l","t","i","n","s">>,
      <<"c","o","d","e">>,
      <<"c","o","d","e","o","p">>,
      <<"m","a","r","s","h","a","l">>,
      <<"t","y","p","e","s">> }

\* Allowed output directories.
ALLOWED_OUTPUT_DIRS ==
    { <<".">>,
      <<"/","m","n","t","/","u","s","e","r","-","d","a","t","a","/","o","u","t","p","u","t","s">>,
      <<"/","t","m","p">>,
      <<"~","/","o","u","t","p","u","t","s">> }

\* Execution timeout in seconds.
EXECUTION_TIMEOUT == 60

\* ------------------------------------------------------------------------
\* State
\* ------------------------------------------------------------------------

VARIABLES
    allowed_imports,      \* the module global ALLOWED_IMPORTS
    blocked_builtins,     \* the module global BLOCKED_BUILTINS
    blocked_attributes,   \* the module global BLOCKED_ATTRIBUTES
    blocked_imports,      \* the module global BLOCKED_IMPORTS
    allowed_output_dirs,  \* the module global ALLOWED_OUTPUT_DIRS
    fn,                   \* the function called last
    pc,                   \* where that call stands
    arg,                  \* the arguments it was called with
    ret,                  \* what it returned
    code,                 \* execute_diagram_code: the parameter code
    errors,               \* execute_diagram_code: the local errors
    result,               \* execute_diagram_code: the value a return statement holds
    temp_path,            \* execute_diagram_code: the local temp_path (0: unbound)
    file_text,            \* the text in the temporary file of this invocation
    temp_files,           \* the temporary files on disk, by name
    made,                 \* history: the temporary files this invocation created
    children,             \* history: the child processes this invocation spawned
    environ,              \* os.environ
    filesystem,           \* cwd, home and the symbolic links
    safe_name,            \* generate_diagram: the local safe_name
    safe_output,          \* generate_diagram: the local safe_output
    exit_status,          \* the status sys.exit was called with (-1: not called)
    steps,                \* history: the steps this invocation has taken, in order
    validator             \* the CodeValidator made last: its errors list, and (history)
                          \* the errors list of the one made before it

policy == << allowed_imports, blocked_builtins, blocked_attributes,
             blocked_imports, allowed_output_dirs >>

exec_locals == << code, errors, result, temp_path, file_text, made, children >>

gen_locals == << safe_name, safe_output >>

vars == << allowed_imports, blocked_builtins, blocked_attributes,
           blocked_imports, allowed_output_dirs, fn, pc, arg, ret, code,
           errors, result, temp_path, file_text, temp_files, made, children,
           environ, filesystem, safe_name, safe_output, exit_status,
           steps, validator >>

\* ------------------------------------------------------------------------
\* SECURITY VALIDATION: the syntax tree and CodeValidator
\* ------------------------------------------------------------------------

\* ast nodes. A module name, an identifier and an attribute name are str; an
\* ImportFrom without a module (from . import x) has module None, which
\* `if node.module` treats as it treats '': both are the empty sequence here.
Import(names) == [type |-> "Import", names |-> names]
ImportFrom(module, level) == [type |-> "ImportFrom", module |-> module, level |-> level]
Call(func, args) == [type |-> "Call", func |-> func, args |-> args]
Name(id) == [type |-> "Name", id |-> id]
Attribute(value, attr) == [type |-> "Attribute", value |-> value, attr |-> attr]
Constant(value) == [type |-> "Constant", value |-> value]
\* Statements that hold other nodes: Module, FunctionDef, ClassDef, If, Try,
\* With, Expr, Assign. None has a visit_ method, so all are walked by
\* generic_visit.
Block(type, body) == [type |-> type, body |-> body]

\* An expression whose tree is nested deeper than the interpreter's recursion
\* limit lets NodeVisitor go, such as a sum of five hundred terms: ast.parse
\* builds it, and visit raises RecursionError on the way down.
DeepBinOp == [type |-> "BinOp", depth |-> "beyond the recursion limit"]

\* ast.iter_child_nodes(node), in field order. The alias nodes of an import
\* have no children and no visit_ method, and are left out.
iter_child_nodes(node) ==
    CASE node.type = "Call" -> << node.func >> \o node.args
      [] node.type = "Attribute" -> << node.value >>
      [] node.type \in {"Import", "ImportFrom", "Name", "Constant", "BinOp"} -> << >>
      [] OTHER -> node.body

\* _is_allowed_import with the two checks the other way round: the
\* allow-set is asked first, and a match there passes the module.
is_allowed_import_allow_first(module_name) ==
    LET base_module == str_split(module_name, ".")[1]
    IN  IF module_name \in allowed_imports
        THEN TRUE
        ELSE IF \E allowed \in allowed_imports :
                    str_startswith(module_name, allowed \o << "." >>)
        THEN TRUE
        ELSE FALSE

\* _is_allowed_import with module_name.startswith(allowed) in place of
\* module_name.startswith(allowed + "."): a bare string prefix passes.
is_allowed_import_bare_prefix(module_name) ==
    LET base_module == str_split(module_name, ".")[1]
    IN  IF base_module \in blocked_imports
        THEN FALSE
        ELSE IF module_name \in allowed_imports
        THEN TRUE
        ELSE \E allowed \in allowed_imports : str_startswith(module_name, allowed)

\* CodeValidator._is_allowed_import: the deny-set is asked first, about the
\* first dotted segment; then the allow-set, for the full name or a prefix of
\* it that ends on a dot.
is_allowed_import(module_name) ==
    LET base_module == str_split(module_name, ".")[1]
    IN  IF base_module \in blocked_imports
        THEN FALSE
        ELSE IF module_name \in allowed_imports
        THEN TRUE
        ELSE \E allowed \in allowed_imports :
                 str_startswith(module_name, allowed \o << "." >>)

\* The findings, as CodeValidator words them.
BlockedImport(module_name) == [kind |-> "Blocked import", name |-> module_name]
BlockedBuiltin(id) == [kind |-> "Blocked builtin call", name |-> id]
BlockedAttribute(attr) == [kind |-> "Blocked attribute access", name |-> attr]
SyntaxErrorFinding == [kind |-> "Syntax error", name |-> << >>]

\* visit_Import: one finding per alias that is not allowed.
RECURSIVE import_errors(_)
import_errors(names) ==
    IF Len(names) = 0 THEN << >>
    ELSE (IF is_allowed_import(names[1]) THEN << >> ELSE << BlockedImport(names[1]) >>)
         \o import_errors(Tail(names))

\* visit_ImportFrom: the module is checked when there is one.
import_from_errors(node) ==
    IF Len(node.module) > 0 /\ ~is_allowed_import(node.module)
    THEN << BlockedImport(node.module) >>
    ELSE << >>

\* visit_Call without its elif branch: only a bare name as target is
\* looked at.
call_errors_bare_names_only(node) ==
    IF node.func.type = "Name" /\ node.func.id \in blocked_builtins
    THEN << BlockedBuiltin(node.func.id) >>
    ELSE << >>

\* visit_Call: the call's target, a bare name or the attribute of an
\* attribute access.
call_errors(node) ==
    IF node.func.type = "Name"
    THEN (IF node.func.id \in blocked_builtins
          THEN << BlockedBuiltin(node.func.id) >> ELSE << >>)
    ELSE IF node.func.type = "Attribute"
    THEN (IF node.func.attr \in blocked_builtins
          THEN << BlockedBuiltin(node.func.attr) >> ELSE << >>)
    ELSE << >>

\* visit_Attribute
attribute_errors(node) ==
    IF node.attr \in blocked_attributes
    THEN << BlockedAttribute(node.attr) >> ELSE << >>

\* NodeVisitor.visit with the visit_ methods of CodeValidator: the node's own
\* findings, then generic_visit over its children (visit_Name records
\* nothing).
RECURSIVE visit(_)
visit_all(nodes) == concat([i \in DOMAIN nodes |-> visit(nodes[i])])

visit(node) ==
    (CASE node.type = "Import" -> import_errors(node.names)
       [] node.type = "ImportFrom" -> import_from_errors(node)
       [] node.type = "Call" -> call_errors(node)
       [] node.type = "Attribute" -> attribute_errors(node)
       [] OTHER -> << >>)
    \o visit_all(iter_child_nodes(node))

\* Every node of the tree under node, as ast.walk gives them.
RECURSIVE ast_walk(_)
ast_walk(node) ==
    LET below == iter_child_nodes(node)
    IN  { node } \cup UNION { ast_walk(below[i]) : i \in DOMAIN below }

\* self.visit(tree) raises RecursionError, which no handler of validate
\* catches: the tree holds an expression too deep for the visitor.
visit_raises(tree) == DeepBinOp \in ast_walk(tree)

\* ------------------------------------------------------------------------
\* ast.parse
\* ------------------------------------------------------------------------
\* A source text is a sequence of source statements. A statement whose text
\* is fixed is given by the node it parses to (or by BadSyntax, for text
\* that does not parse); the with statement of a pattern template, the one
\* place where user-influenced characters enter the text, is given by its
\* characters (WithText) and is tokenized and parsed here.

BadSyntax == [type |-> "BadSyntax"]
WithText(text, body) == [type |-> "WithText", text |-> text, body |-> body]

IdentStart ==
    { "a", "b", "c", "d", "e", "f", "g", "h", "i", "j", "k", "l", "m",
      "n", "o", "p", "q", "r", "s", "t", "u", "v", "w", "x", "y", "z",
      "A", "B", "C", "D", "E", "F", "G", "H", "I", "J", "K", "L", "M",
      "N", "O", "P", "Q", "R", "S", "T", "U", "V", "W", "X", "Y", "Z", "_" }
Digits == { "0", "1", "2", "3", "4", "5", "6", "7", "8", "9" }
IdentChar == IdentStart \cup Digits
Quotes == { "\"", "'" }

Tok(t, v) == [t |-> t, v |-> v]

\* The end of the identifier that starts at s[i]: the index of its last
\* character.
ident_end(s, i) ==
    CHOOSE j \in i..Len(s) :
        /\ \A k \in i..j : s[k] \in IdentChar
        /\ j = Len(s) \/ s[j + 1] \notin IdentChar

\* Inside a literal whose text starts at s[i], s[k] is taken by a backslash
\* when the backslashes that stand right before it are odd in number.
escaped(s, i, k) ==
    \E j \in i..(k - 1) :
        /\ \A m \in j..(k - 1) : s[m] = "\\"
        /\ j = i \/ s[j - 1] # "\\"
        /\ (k - j) % 2 = 1

\* The index of the quote that closes a one-line string literal opened with
\* q before s[i]; 0 when the line or the text ends first. A backslash takes
\* the next character with it.
string_end(s, i, q) ==
    LET closing == { k \in i..Len(s) :
                       /\ s[k] = q
                       /\ ~escaped(s, i, k)
                       /\ \A j \in i..(k - 1) :
                              s[j] \in { q, "\n" } => escaped(s, i, j) }
    IN  CHOOSE k \in closing \cup { 0 } : closing = {} \/ k # 0

\* The index of the last quote of the qqq that closes a triple-quoted literal
\* whose text starts at s[i]; 0 when the text ends first.
triple_end(s, i, q) ==
    LET closing == { k \in i..(Len(s) - 2) :
                       /\ s[k] = q /\ s[k + 1] = q /\ s[k + 2] = q
                       /\ ~escaped(s, i, k)
                       /\ \A j \in i..(k - 1) :
                              s[j] = q /\ s[j + 1] = q /\ s[j + 2] = q
                                  => escaped(s, i, j) }
    IN  CHOOSE k \in { c + 2 : c \in closing } \cup { 0 } : closing = {} \/ k # 0

\* The tokenizer at s[at], at bracket depth `depth`, with the tokens `toks`
\* read so far; done when it has given up.
Lexer(at, depth, toks, done) ==
    [at |-> at, depth |-> depth, toks |-> toks, done |-> done]

\* The tokenizer after the token, or the white space, at s[l.at]: NAME, STR,
\* OP, NEWLINE (a line break outside brackets), and ERROR where the
\* tokenizer gives up (an unterminated literal, a character that starts no
\* token). The texts tokenized here hold no number, no operator other than
\* the OP characters below, and no identifier that is a string prefix.
lex_literal(l, j) ==
    IF j = 0 THEN Lexer(l.at, l.depth, Append(l.toks, Tok("ERROR", << >>)), TRUE)
    ELSE Lexer(j + 1, l.depth, Append(l.toks, Tok("STR", << >>)), FALSE)

lex_name(s, l, j) ==
    Lexer(j + 1, l.depth, Append(l.toks, Tok("NAME", SubSeq(s, l.at, j))), FALSE)

lex_step(s, l) ==
    IF l.done \/ l.at > Len(s) THEN l ELSE
    LET c == s[l.at] IN
      CASE c \in { " ", "\t" } -> Lexer(l.at + 1, l.depth, l.toks, FALSE)
        [] c = "\n" ->
             IF l.depth > 0 THEN Lexer(l.at + 1, l.depth, l.toks, FALSE)
             ELSE Lexer(l.at + 1, l.depth, Append(l.toks, Tok("NEWLINE", << >>)), FALSE)
        [] c \in Quotes ->
             IF l.at + 2 <= Len(s) /\ s[l.at + 1] = c /\ s[l.at + 2] = c
             THEN lex_literal(l, triple_end(s, l.at + 3, c))
             ELSE lex_literal(l, string_end(s, l.at + 1, c))
        [] c \in IdentStart -> lex_name(s, l, ident_end(s, l.at))
        [] c \in { "(", "{" } ->
             Lexer(l.at + 1, l.depth + 1, Append(l.toks, Tok("OP", c)), FALSE)
        [] c \in { ")", "}" } ->
             Lexer(l.at + 1, IF l.depth > 0 THEN l.depth - 1 ELSE 0,
                   Append(l.toks, Tok("OP", c)), FALSE)
        [] c \in { ",", ".", "=", ":" } ->
             Lexer(l.at + 1, l.depth, Append(l.toks, Tok("OP", c)), FALSE)
        [] OTHER -> Lexer(l.at, l.depth, Append(l.toks, Tok("ERROR", << >>)), TRUE)

\* The tokens when the tokenizer has given up or the text has ended, the
\* steps taken four at a time.
RECURSIVE lex_run(_, _)
lex_run(s, l) ==
    IF l.done \/ l.at > Len(s) THEN l.toks
    ELSE lex_run(s, lex_step(s, lex_step(s, lex_step(s, lex_step(s, l)))))

\* The tokens of s from s[i] on, at bracket depth `depth`.
tokenize(s, i, depth) == lex_run(s, Lexer(i, depth, << >>, FALSE))
\* The parser of a with statement's header, `with item, ... :`, over the
\* tokens: a stack of open brackets (top first), each a frame holding the
\* call's function and the arguments read so far. Expressions are names,
\* string literals (adjacent ones concatenate), attribute accesses, calls
\* with positional and keyword arguments, parenthesised expressions, tuples
\* and dict displays: what the templates' headers are written in.
Frame(kind, func) ==
    [kind |-> kind, func |-> func, args |-> << >>, kw |-> FALSE, key |-> TRUE]

IsOp(tk, c) == tk.t = "OP" /\ tk.v = c

\* The node a closing bracket makes of the frame and its last element.
close_frame(top, last) ==
    CASE top.kind = "call" -> Call(top.func, top.args \o last)
      [] top.kind = "dict" -> Block("Dict", top.args \o last)
      [] top.kind = "group" /\ Len(top.args) = 0 /\ Len(last) = 1 -> last[1]
      [] OTHER -> Block("Tuple", top.args \o last)

\* The parser at token i, in state st (start and value: an expression is to
\* begin; afterdot: an attribute name is to come; operand: cur is the
\* expression read so far), with the stack of open brackets.
Parser(i, stack, st, cur) ==
    [ok |-> FALSE, done |-> FALSE, items |-> << >>,
     i |-> i, stack |-> stack, st |-> st, cur |-> cur]

Parsed(ok, items) ==
    [ok |-> ok, done |-> TRUE, items |-> items,
     i |-> 0, stack |-> << >>, st |-> "end", cur |-> Constant(<< >>)]

ParseFail == Parsed(FALSE, << >>)

\* The parser after the token toks[p.i].
parse_step(toks, p) ==
    IF p.done THEN p ELSE IF p.i > Len(toks) THEN ParseFail ELSE
    LET i == p.i
        stack == p.stack
        st == p.st
        cur == p.cur
        tk == toks[i]
        top == stack[1]
        rest == Tail(stack)
        \* a positional argument after a keyword argument is a syntax error
        positional_ok == ~(st = "start" /\ top.kind = "call" /\ top.kw)
    IN
    IF st \in { "start", "value" } THEN
      CASE tk.t = "NAME" ->
             IF st = "start" /\ top.kind = "call" /\ i < Len(toks) /\ IsOp(toks[i + 1], "=")
             THEN Parser(i + 2, << [top EXCEPT !.kw = TRUE] >> \o rest, "value", cur)
             ELSE IF positional_ok
             THEN Parser(i + 1, stack, "operand", Name(tk.v))
             ELSE ParseFail
        [] tk.t = "STR" ->
             IF positional_ok
             THEN Parser(i + 1, stack, "operand", Constant(<< >>))
             ELSE ParseFail
        [] IsOp(tk, "(") ->
             IF positional_ok
             THEN Parser(i + 1, << Frame("group", cur) >> \o stack, "start", cur)
             ELSE ParseFail
        [] IsOp(tk, "{") ->
             IF positional_ok
             THEN Parser(i + 1, << Frame("dict", cur) >> \o stack, "start", cur)
             ELSE ParseFail
        [] IsOp(tk, ")") ->
             IF st = "start" /\ top.kind \in { "call", "group" }
             THEN Parser(i + 1, rest, "operand", close_frame(top, << >>))
             ELSE ParseFail
        [] IsOp(tk, "}") ->
             IF st = "start" /\ top.kind = "dict" /\ top.key
             THEN Parser(i + 1, rest, "operand", close_frame(top, << >>))
             ELSE ParseFail
        [] OTHER -> ParseFail
    ELSE IF st = "afterdot" THEN
      IF tk.t = "NAME"
      THEN Parser(i + 1, stack, "operand", Attribute(cur, tk.v))
      ELSE ParseFail
    ELSE \* st = "operand": cur is the expression read so far
      CASE IsOp(tk, ".") -> Parser(i + 1, stack, "afterdot", cur)
        [] IsOp(tk, "(") ->
             Parser(i + 1, << Frame("call", cur) >> \o stack, "start", cur)
        [] tk.t = "STR" ->
             IF cur.type = "Constant"
             THEN Parser(i + 1, stack, "operand", cur)
             ELSE ParseFail
        [] IsOp(tk, ",") ->
             IF top.kind = "dict" /\ top.key THEN ParseFail
             ELSE Parser(i + 1,
                              << [top EXCEPT !.args = @ \o << cur >>, !.key = TRUE] >> \o rest,
                              "start", cur)
        [] IsOp(tk, ":") ->
             IF top.kind = "dict" /\ top.key
             THEN Parser(i + 1,
                              << [top EXCEPT !.args = @ \o << cur >>, !.key = FALSE] >> \o rest,
                              "value", cur)
             ELSE IF top.kind = "with" /\ i = Len(toks)
             THEN Parsed(TRUE, top.args \o << cur >>)
             ELSE ParseFail
        [] IsOp(tk, ")") ->
             IF top.kind \in { "call", "group" }
             THEN Parser(i + 1, rest, "operand", close_frame(top, << cur >>))
             ELSE ParseFail
        [] IsOp(tk, "}") ->
             IF top.kind = "dict" /\ ~top.key
             THEN Parser(i + 1, rest, "operand", close_frame(top, << cur >>))
             ELSE ParseFail
        [] OTHER -> ParseFail

\* The header parsed to its end: the items of the with statement, or a
\* failure (the tokens end before the colon that ends the header). The
\* steps are taken four at a time.
RECURSIVE parse_run(_, _)
parse_run(toks, p) ==
    IF p.done THEN p
    ELSE parse_run(toks, parse_step(toks, parse_step(toks,
                             parse_step(toks, parse_step(toks, p)))))

parse_items(toks, i, stack, st, cur) == parse_run(toks, Parser(i, stack, st, cur))

\* A statement, or a text, that does not parse.
NotParsed == [ok |-> FALSE, items |-> << >>]

\* The With node made of what parse_items gives for the header and of the
\* body, or a failure.
with_node(r, body) ==
    IF r.ok THEN [ok |-> TRUE, items |-> << Block("With", r.items \o body) >>]
    ELSE NotParsed

\* The statement with these tokens, which is a with statement or a failure.
parse_tokens(toks, body) ==
    IF Len(toks) = 0 \/ toks[1] # Tok("NAME", << "w", "i", "t", "h" >>)
    THEN NotParsed
    ELSE with_node(parse_items(toks, 2, << Frame("with", Constant(<< >>)) >>,
                               "start", Constant(<< >>)),
                   body)

\* The With node of a with statement's text, or a failure.
parse_with(stmt) == parse_tokens(tokenize(stmt.text, 1, 0), stmt.body)

\* One statement of a source text: the node it is given by, the With node
\* of a with statement's text, or a failure.
parse_stmt(stmt) ==
    IF stmt.type = "BadSyntax" THEN NotParsed
    ELSE IF stmt.type = "WithText" THEN parse_with(stmt)
    ELSE [ok |-> TRUE, items |-> << stmt >>]

\* The statements, each parsed: one that does not parse fails the whole
\* text.
stmts_node(parsed) ==
    IF \A i \in DOMAIN parsed : parsed[i].ok
    THEN [ok |-> TRUE, items |-> [i \in DOMAIN parsed |-> parsed[i].items[1]]]
    ELSE NotParsed

\* The statements of a source text, parsed in order.
parse_stmts(source) == stmts_node([i \in DOMAIN source |-> parse_stmt(source[i])])

\* The Module node of the parsed statements.
module_node(r) == [ok |-> r.ok, tree |-> Block("Module", r.items)]

\* ast.parse(code): the Module node, or SyntaxError raised (ok = FALSE).
ast_parse(source) == module_node(parse_stmts(source))

\* validate raises instead of returning: the text parses and the walk of
\* its tree raises.
tree_raises(parsed) == parsed.ok /\ visit_raises(parsed.tree)

validate_raises(source) == tree_raises(ast_parse(source))

\* self.visit(tree), or the handler of SyntaxError when ast.parse raised.
visit_parsed(parsed) ==
    IF parsed.ok THEN visit(parsed.tree) ELSE << SyntaxErrorFinding >>

\* CodeValidator.validate: errors is emptied, then holds the findings of the
\* walk, or the one syntax error when ast.parse raised.
validate(source) == visit_parsed(ast_parse(source))

\* return len(errors) == 0, errors
is_valid_and_errors(found) == [is_valid |-> Len(found) = 0, errors |-> found]

\* validate_code: a fresh CodeValidator; (is_valid, errors).
validate_code(source) == is_valid_and_errors(validate(source))

\* One CodeValidator kept for all calls, and validate without its first
\* line: the errors list goes on from what the call before left in it.
new_errors_kept(previous) == previous

\* validator = CodeValidator(): a new object, whose errors list __init__
\* makes empty whatever the validator made before holds.
new_errors(previous) == << >>

\* The CodeValidator after validate(source) has returned on it: validate
\* empties errors, then the findings are appended.
validator_after(source, last) ==
    [errors |-> new_errors(last.errors) \o validate(source), before |-> last.errors]

\* The CodeValidator of a call whose walk raised: what the walk had
\* appended is lost with the exception.
validator_raised(last) == [errors |-> new_errors(last.errors), before |-> last.errors]
\* ------------------------------------------------------------------------
\* Sanitizers
\* ------------------------------------------------------------------------

Letters ==
    { "a", "b", "c", "d", "e", "f", "g", "h", "i", "j", "k", "l", "m",
      "n", "o", "p", "q", "r", "s", "t", "u", "v", "w", "x", "y", "z",
      "A", "B", "C", "D", "E", "F", "G", "H", "I", "J", "K", "L", "M",
      "N", "O", "P", "Q", "R", "S", "T", "U", "V", "W", "X", "Y", "Z" }

\* \s
Whitespace == { " ", "\t", "\n", "\r", "\f" }

\* The class [a-zA-Z0-9\s\-_.,!?()\'"] of sanitize_name.
NAME_CLASS ==
    Letters \cup Digits \cup Whitespace
        \cup { "-", "_", ".", ",", "!", "?", "(", ")", "'", "\"" }

\* The class [/\\:*?"<>|] of sanitize_output.
OUTPUT_CLASS == { "/", "\\", ":", "*", "?", "\"", "<", ">", "|" }

\* sanitize_name with the cut before the substitution: name[:200] first,
\* then the characters outside the class dropped.
sanitize_name_cut_first(name) ==
    re_sub_keep(str_slice_to(name, 200), NAME_CLASS)

\* sanitize_name: drop every character outside the class, keep 200.
sanitize_name(name) ==
    LET sanitized == re_sub_keep(name, NAME_CLASS)
    IN  str_slice_to(sanitized, 200)

\* sanitize_output without the replace('..', '').
sanitize_output_keeping_dots(output) ==
    str_slice_to(re_sub_delete(output, OUTPUT_CLASS), 100)

\* sanitize_output: drop the characters of the class, then one
\* replace('..', ''), keep 100.
sanitize_output(output) ==
    LET sanitized == str_replace_dotdot(re_sub_delete(output, OUTPUT_CLASS))
    IN  str_slice_to(sanitized, 100)

\* ------------------------------------------------------------------------
\* Path confinement
\* ------------------------------------------------------------------------
\* A pathlib path is its components, each a str; filesystem holds the
\* current working directory and the home directory (both canonical) and
\* the symbolic links, each from a canonical path to the canonical path it
\* points to.

\* The character chr(0), which no string literal of the model can hold.
NUL == "NUL"

\* Path(s).resolve() raises ValueError (embedded null byte) when os.lstat is
\* given a path that holds the character.
resolve_raises(s) == NUL \in Range(s)

IsPathPart(c) == c # << >> /\ c # << "." >>

\* Path(s): absolute when s starts with a slash; empty and '.' components
\* are dropped, '..' components are kept.
Path(s) ==
    [ absolute |-> Len(s) > 0 /\ s[1] = "/",
      parts |-> SelectSeq(str_split(s, "/"), IsPathPart) ]

\* Path.expanduser(): a leading ~ component is the home directory.
expanduser(p) ==
    IF ~p.absolute /\ Len(p.parts) > 0 /\ p.parts[1] = << "~" >>
    THEN [ absolute |-> TRUE, parts |-> filesystem.home \o Tail(p.parts) ]
    ELSE p

\* os.path.realpath from the canonical directory `at` along `parts`: '..'
\* goes to the parent of what is resolved so far, a symbolic link is
\* replaced by what it points to, any other component (existing or not) is
\* appended.
RECURSIVE realpath(_, _)
realpath(at, parts) ==
    IF Len(parts) = 0 THEN at
    ELSE IF parts[1] = << ".", "." >>
    THEN realpath(IF Len(at) = 0 THEN at ELSE SubSeq(at, 1, Len(at) - 1), Tail(parts))
    ELSE LET next == at \o << parts[1] >>
         IN  IF next \in DOMAIN filesystem.links
             THEN realpath(filesystem.links[next], Tail(parts))
             ELSE realpath(next, Tail(parts))

\* Path.resolve(): the canonical absolute path, as its components.
resolve(p) ==
    realpath(IF p.absolute THEN << >> ELSE filesystem.cwd, p.parts)

\* path.relative_to(other) does not raise ValueError: other's components
\* are the first components of path.
relative_to(path, other) ==
    /\ Len(other) <= Len(path)
    /\ SubSeq(path, 1, Len(other)) = other

\* The error message: None, or the refusal, which joins the entries of
\* ALLOWED_OUTPUT_DIRS.
NoMessage == [text |-> "None", dirs |-> {}]
NotAllowed == [text |-> "Output path not allowed. Allowed directories: ",
               dirs |-> allowed_output_dirs]

\* validate_output_path: (is_valid, error_message), for an output_path that
\* resolve() takes.
validate_output_path(output_path) ==
    LET path == resolve(Path(output_path))
    IN  IF \E allowed \in allowed_output_dirs :
               relative_to(path, resolve(expanduser(Path(allowed))))
        THEN [is_valid |-> TRUE, error |-> NoMessage]
        ELSE IF relative_to(path, filesystem.cwd)
        THEN [is_valid |-> TRUE, error |-> NoMessage]
        ELSE [is_valid |-> FALSE, error |-> NotAllowed]

\* ------------------------------------------------------------------------
\* PATTERN TEMPLATES
\* ------------------------------------------------------------------------
\* A template is its import statements, in order, and one with statement,
\* `with Diagram("{name}", show=False, filename="{output}", direction=...,
\* outformat="svg", graph_attr={{...}}):`, whose body builds nodes, clusters
\* and edges by calling imported classes on string constants. The patterns
\* are keyed by their names; a key is only ever looked up, never taken apart.

PATTERNS ==
    "api-led" :>
          [ direction |-> <<"L","R">>,
            imports |->
              << <<"d","i","a","g","r","a","m","s">>,
                 <<"d","i","a","g","r","a","m","s",".","a","z","u","r","e",".","i","n","t","e","g","r","a","t","i","o","n">>,
                 <<"d","i","a","g","r","a","m","s",".","a","z","u","r","e",".","c","o","m","p","u","t","e">>,
                 <<"d","i","a","g","r","a","m","s",".","a","z","u","r","e",".","d","a","t","a","b","a","s","e">>,
                 <<"d","i","a","g","r","a","m","s",".","a","z","u","r","e",".","s","t","o","r","a","g","e">>,
                 <<"d","i","a","g","r","a","m","s",".","a","z","u","r","e",".","s","e","c","u","r","i","t","y">>,
                 <<"d","i","a","g","r","a","m","s",".","o","n","p","r","e","m",".","c","l","i","e","n","t">> >> ]
    @@ "hybrid" :>
          [ direction |-> <<"L","R">>,
            imports |->
              << <<"d","i","a","g","r","a","m","s">>,
                 <<"d","i","a","g","r","a","m","s",".","a","z","u","r","e",".","i","n","t","e","g","r","a","t","i","o","n">>,
                 <<"d","i","a","g","r","a","m","s",".","a","z","u","r","e",".","n","e","t","w","o","r","k","i","n","g">>,
                 <<"d","i","a","g","r","a","m","s",".","a","z","u","r","e",".","s","t","o","r","a","g","e">>,
                 <<"d","i","a","g","r","a","m","s",".","a","z","u","r","e",".","d","a","t","a","b","a","s","e">>,
                 <<"d","i","a","g","r","a","m","s",".","a","z","u","r","e",".","s","e","c","u","r","i","t","y">>,
                 <<"d","i","a","g","r","a","m","s",".","o","n","p","r","e","m",".","d","a","t","a","b","a","s","e">>,
                 <<"d","i","a","g","r","a","m","s",".","o","n","p","r","e","m",".","c","o","m","p","u","t","e">> >> ]
    @@ "event-driven" :>
          [ direction |-> <<"T","B">>,
            imports |->
              << <<"d","i","a","g","r","a","m","s">>,
                 <<"d","i","a","g","r","a","m","s",".","a","z","u","r","e",".","i","n","t","e","g","r","a","t","i","o","n">>,
                 <<"d","i","a","g","r","a","m","s",".","a","z","u","r","e",".","c","o","m","p","u","t","e">>,
                 <<"d","i","a","g","r","a","m","s",".","a","z","u","r","e",".","d","a","t","a","b","a","s","e">>,
                 <<"d","i","a","g","r","a","m","s",".","a","z","u","r","e",".","s","t","o","r","a","g","e">>,
                 <<"d","i","a","g","r","a","m","s",".","a","z","u","r","e",".","m","o","n","i","t","o","r">> >> ]
    @@ "microservices" :>
          [ direction |-> <<"T","B">>,
            imports |->
              << <<"d","i","a","g","r","a","m","s">>,
                 <<"d","i","a","g","r","a","m","s",".","a","z","u","r","e",".","i","n","t","e","g","r","a","t","i","o","n">>,
                 <<"d","i","a","g","r","a","m","s",".","a","z","u","r","e",".","c","o","m","p","u","t","e">>,
                 <<"d","i","a","g","r","a","m","s",".","a","z","u","r","e",".","d","a","t","a","b","a","s","e">>,
                 <<"d","i","a","g","r","a","m","s",".","a","z","u","r","e",".","m","o","n","i","t","o","r">> >> ]
    @@ "b2b-edi" :>
          [ direction |-> <<"L","R">>,
            imports |->
              << <<"d","i","a","g","r","a","m","s">>,
                 <<"d","i","a","g","r","a","m","s",".","a","z","u","r","e",".","i","n","t","e","g","r","a","t","i","o","n">>,
                 <<"d","i","a","g","r","a","m","s",".","a","z","u","r","e",".","s","t","o","r","a","g","e">>,
                 <<"d","i","a","g","r","a","m","s",".","a","z","u","r","e",".","s","e","c","u","r","i","t","y">>,
                 <<"d","i","a","g","r","a","m","s",".","o","n","p","r","e","m",".","c","l","i","e","n","t">>,
                 <<"d","i","a","g","r","a","m","s",".","o","n","p","r","e","m",".","c","o","m","p","u","t","e">> >> ]
    @@ "data-pipeline" :>
          [ direction |-> <<"L","R">>,
            imports |->
              << <<"d","i","a","g","r","a","m","s">>,
                 <<"d","i","a","g","r","a","m","s",".","a","z","u","r","e",".","i","n","t","e","g","r","a","t","i","o","n">>,
                 <<"d","i","a","g","r","a","m","s",".","a","z","u","r","e",".","a","n","a","l","y","t","i","c","s">>,
                 <<"d","i","a","g","r","a","m","s",".","a","z","u","r","e",".","s","t","o","r","a","g","e">>,
                 <<"d","i","a","g","r","a","m","s",".","a","z","u","r","e",".","d","a","t","a","b","a","s","e">>,
                 <<"d","i","a","g","r","a","m","s",".","o","n","p","r","e","m",".","d","a","t","a","b","a","s","e">> >> ]
    @@ "secure-private" :>
          [ direction |-> <<"T","B">>,
            imports |->
              << <<"d","i","a","g","r","a","m","s">>,
                 <<"d","i","a","g","r","a","m","s",".","a","z","u","r","e",".","i","n","t","e","g","r","a","t","i","o","n">>,
                 <<"d","i","a","g","r","a","m","s",".","a","z","u","r","e",".","c","o","m","p","u","t","e">>,
                 <<"d","i","a","g","r","a","m","s",".","a","z","u","r","e",".","n","e","t","w","o","r","k","i","n","g">>,
                 <<"d","i","a","g","r","a","m","s",".","a","z","u","r","e",".","d","a","t","a","b","a","s","e">>,
                 <<"d","i","a","g","r","a","m","s",".","a","z","u","r","e",".","s","t","o","r","a","g","e">>,
                 <<"d","i","a","g","r","a","m","s",".","a","z","u","r","e",".","s","e","c","u","r","i","t","y">>,
                 <<"d","i","a","g","r","a","m","s",".","o","n","p","r","e","m",".","c","l","i","e","n","t">> >> ]
    @@ "multi-region" :>
          [ direction |-> <<"T","B">>,
            imports |->
              << <<"d","i","a","g","r","a","m","s">>,
                 <<"d","i","a","g","r","a","m","s",".","a","z","u","r","e",".","i","n","t","e","g","r","a","t","i","o","n">>,
                 <<"d","i","a","g","r","a","m","s",".","a","z","u","r","e",".","n","e","t","w","o","r","k","i","n","g">>,
                 <<"d","i","a","g","r","a","m","s",".","a","z","u","r","e",".","d","a","t","a","b","a","s","e">> >> ]
    @@ "iot-streaming" :>
          [ direction |-> <<"L","R">>,
            imports |->
              << <<"d","i","a","g","r","a","m","s">>,
                 <<"d","i","a","g","r","a","m","s",".","a","z","u","r","e",".","i","o","t">>,
                 <<"d","i","a","g","r","a","m","s",".","a","z","u","r","e",".","a","n","a","l","y","t","i","c","s">>,
                 <<"d","i","a","g","r","a","m","s",".","a","z","u","r","e",".","c","o","m","p","u","t","e">>,
                 <<"d","i","a","g","r","a","m","s",".","a","z","u","r","e",".","d","a","t","a","b","a","s","e">>,
                 <<"d","i","a","g","r","a","m","s",".","a","z","u","r","e",".","s","t","o","r","a","g","e">>,
                 <<"d","i","a","g","r","a","m","s",".","a","z","u","r","e",".","m","l">> >> ]

\* The text of the with statement around its three fields.
WITH_OPEN ==
    << "w","i","t","h"," ","D","i","a","g","r","a","m","(","\"" >>
WITH_AFTER_NAME ==
    << "\"",","," ","s","h","o","w","=","F","a","l","s","e",","," ","f","i","l","e","n","a","m","e",
       "=","\"" >>
WITH_AFTER_OUTPUT ==
    << "\"",","," ","d","i","r","e","c","t","i","o","n","=","\"" >>
WITH_CLOSE ==
    << "\"",","," ","o","u","t","f","o","r","m","a","t","=","\"","s","v","g","\"",",","\n"," "," "," ",
       " "," "," "," "," "," "," "," "," "," ","g","r","a","p","h","_","a","t","t","r","=","{","\"",
       "f","o","n","t","s","i","z","e","\"",":"," ","\"","2","0","\"",","," ","\"","b","g","c","o","l",
       "o","r","\"",":"," ","\"","w","h","i","t","e","\"",","," ","\"","p","a","d","\"",":"," ","\"",
       "0",".","5","\"","}",")",":" >>

\* ------------------------------------------------------------------------
\* The executor's environment and the rendering of a template
\* ------------------------------------------------------------------------

\* os.environ.get(key, '')
environ_get(os_environ, key) ==
    IF key \in DOMAIN os_environ THEN os_environ[key] ELSE << >>

\* The env dict with the parent's variables under it, as subprocess.run
\* gives the child when no env is passed.
child_env_inherited(os_environ) ==
    [ key \in DOMAIN os_environ
              \cup { "PATH", "PYTHONPATH", "HOME", "TEMP", "TMP", "USERPROFILE" } |->
          environ_get(os_environ, key) ]

\* The env dict execute_diagram_code hands to the child.
child_env(os_environ) ==
    [ PATH |-> environ_get(os_environ, "PATH"),
      PYTHONPATH |-> environ_get(os_environ, "PYTHONPATH"),
      HOME |-> environ_get(os_environ, "HOME"),
      TEMP |-> environ_get(os_environ, "TEMP"),
      TMP |-> environ_get(os_environ, "TMP"),
      USERPROFILE |-> environ_get(os_environ, "USERPROFILE") ]

\* The statements in the body of a template's with statement: calls of
\* imported classes on string constants.
TemplateBody ==
    << Block("Assign", << Call(Name(<< "C", "l", "u", "s", "t", "e", "r" >>),
                               << Constant(<< >>) >>) >>) >>

\* One `from M import ...` statement per import line of the template.
template_imports(modules) == [i \in DOMAIN modules |-> ImportFrom(modules[i], 0)]

\* template.format(name=safe_name, output=safe_output): the two fields are
\* put into the text as they are.
format(pattern, name, output) ==
    template_imports(PATTERNS[pattern].imports)
        \o << WithText(WITH_OPEN \o name \o WITH_AFTER_NAME \o output
                           \o WITH_AFTER_OUTPUT \o PATTERNS[pattern].direction
                           \o WITH_CLOSE,
                       TemplateBody) >>

\* ------------------------------------------------------------------------
\* The inputs the calls are made with
\* ------------------------------------------------------------------------

MaxSegments == 2     \* dotted segments of an imported module name
MaxBody == 2         \* statements of a source text
MaxNameLen == 3      \* characters of a diagram name taken from NameAlphabet
MaxOutputLen == 4    \* characters of an output name taken from OutputAlphabet
MaxPathParts == 3    \* components of a path given to validate_output_path
MaxEnvVars == 2      \* variables set in the parent environment
MaxTempFiles == 1    \* temporary files the disk holds

SeqsUpTo(S, n) == UNION { [1..k -> S] : k \in 0..n }

\* n times the letter a.
Pad(n) == [i \in 1..n |-> "a"]

Str_os == << "o", "s" >>
Str_diagrams == << "d", "i", "a", "g", "r", "a", "m", "s" >>
Str_diagramsx == << "d", "i", "a", "g", "r", "a", "m", "s", "x" >>
Str_azure == << "a", "z", "u", "r", "e" >>
Str_x == << "x" >>
Str_eval == << "e", "v", "a", "l" >>
Str_print == << "p", "r", "i", "n", "t" >>
Str_class == << "_", "_", "c", "l", "a", "s", "s", "_", "_" >>
Str_name == << "n", "a", "m", "e" >>

\* Module names: os is deny-listed, diagrams is allow-listed, diagramsx
\* has an allow-listed name as a bare prefix, azure and x are in no list.
Segments == { Str_os, Str_diagrams, Str_diagramsx, Str_azure, Str_x }

ModuleNames ==
    { str_join(segs, << "." >>) : segs \in SeqsUpTo(Segments, MaxSegments) \ { << >> } }

\* Expressions: calls of a blocked and of a harmless name, attribute
\* accesses in read and in call position, a blocked name as an argument,
\* a blocked call inside a call, and a blocked attribute inside a blocked call. Among the statements, x = eval gives
\* the blocked builtin another name.
CallTargets ==
    { Name(Str_eval), Name(Str_print),
      Attribute(Name(Str_x), Str_eval), Attribute(Name(Str_x), Str_class),
      Attribute(Name(Str_x), Str_name) }

Exprs ==
    { Call(f, << >>) : f \in CallTargets }
        \cup { Attribute(Name(Str_x), Str_class), Attribute(Name(Str_x), Str_name),
               Call(Name(Str_print), << Name(Str_eval) >>),
               Call(Name(Str_print), << Call(Name(Str_eval), << >>) >>),
               Call(Name(Str_eval), << Attribute(Name(Str_x), Str_class) >>) }

\* Statements put inside a function, a conditional or a try block, and
\* after the first statement of a text; the last one calls the name x.
InnerStmts ==
    { Import(<< Str_os >>), Import(<< Str_diagrams >>),
      ImportFrom(Str_os, 0), Block("Expr", << Call(Name(Str_eval), << >>) >>),
      Block("Expr", << Call(Name(Str_x), << >>) >>) }

Stmts ==
    { Import(<< m >>) : m \in ModuleNames }
        \cup { Import(<< m, n >>) : m \in ModuleNames, n \in { Str_os, Str_diagrams } }
        \cup { ImportFrom(m, 0) : m \in ModuleNames }
        \cup { ImportFrom(<< >>, 1), ImportFrom(Str_os, 1), ImportFrom(Str_diagrams, 1) }
        \cup { Block("Expr", << e >>) : e \in Exprs }
        \cup { Block("Assign", << Name(Str_x), Name(Str_eval) >>) }
        \cup { Block(t, << s >>) : t \in { "FunctionDef", "If", "Try" }, s \in InnerStmts }

\* Texts with a statement `x = a + a + ... + a` too deep for the visitor:
\* alone, after an import of os, and before a line that does not parse.
DeepStmt == Block("Assign", << Name(Str_x), DeepBinOp >>)

DeepCodes ==
    { << DeepStmt >>, << Import(<< Str_os >>), DeepStmt >>, << DeepStmt, BadSyntax >> }

\* Source texts: one statement, or text that does not parse, then up to
\* MaxBody - 1 more.
Codes ==
    { << s >> \o more : s \in Stmts \cup { BadSyntax },
                        more \in SeqsUpTo(InnerStmts \cup { BadSyntax }, MaxBody - 1) }
        \cup DeepCodes

\* Two of them: one that passes validation and one that does not.
FewCodes == { << Import(<< Str_diagrams >>) >>, << Import(<< Str_os >>) >> }

\* Diagram names: every string of up to MaxNameLen characters of the
\* alphabet, and strings around the length limit.
\* The letter e with an acute accent (chr(233)), which is not in a-z.
E_ACUTE == "e-acute"

NameAlphabet == { "a", "\"", "\n", ";", "\\", "$", E_ACUTE }

NameInputs ==
    SeqsUpTo(NameAlphabet, MaxNameLen)
        \cup { Pad(n) \o s : n \in 198..200, s \in SeqsUpTo(NameAlphabet, 2) }

\* Output names, likewise.
OutputAlphabet == { "a", ".", "/", ":" }

OutputInputs ==
    SeqsUpTo(OutputAlphabet, MaxOutputLen)
        \cup { Pad(n) \o s : n \in 97..100, s \in SeqsUpTo(OutputAlphabet, 3) }

\* Directory names.
Str_tmp == << "t", "m", "p" >>
Str_tmpx == << "t", "m", "p", "x" >>
Str_etc == << "e", "t", "c" >>
Str_work == << "w", "o", "r", "k" >>
Str_link == << "l", "i", "n", "k" >>
Str_home == << "h", "o", "m", "e" >>
Str_outputs == << "o", "u", "t", "p", "u", "t", "s" >>
Str_mnt == << "m", "n", "t" >>
Str_user_data == << "u", "s", "e", "r", "-", "d", "a", "t", "a" >>

\* File systems: no link; links out of the working directory and out of
\* /tmp; a working directory outside every listed root with a link into
\* /tmp; /tmp itself a link; another home directory.
FileSystems ==
    { [ cwd |-> << Str_work >>, home |-> << Str_home >>, links |-> << >> ],
      [ cwd |-> << Str_work >>, home |-> << Str_home >>,
        links |-> (<< Str_work, Str_link >> :> << Str_etc >>)
                      @@ (<< Str_tmp, Str_link >> :> << Str_etc >>) ],
      [ cwd |-> << Str_etc >>, home |-> << Str_home >>,
        links |-> (<< Str_etc, Str_link >> :> << Str_tmp >>) ],
      [ cwd |-> << Str_work >>, home |-> << Str_home >>,
        links |-> (<< Str_tmp >> :> << Str_etc, Str_tmp >>) ],
      [ cwd |-> << Str_work >>, home |-> << Str_etc >>, links |-> << >> ] }

\* Paths: up to MaxPathParts components, absolute or relative, paths at
\* and below the two deeper roots, and two paths that hold chr(0).
PathNames == { Str_tmp, Str_tmpx, Str_etc, Str_link, Str_outputs, << ".", "." >> }

PathInputs ==
    { lead \o str_join(parts, << "/" >>) :
          lead \in { << >>, << "/" >> }, parts \in SeqsUpTo(PathNames, MaxPathParts) }
        \cup { str_join(<< << >>, Str_mnt, Str_user_data, last, Str_x >>, << "/" >>) :
                   last \in { Str_outputs, Str_outputs \o Str_x } }
        \cup { str_join(<< << >>, Str_home, Str_outputs >>, << "/" >>),
               str_join(<< << "~" >>, Str_outputs >>, << "/" >>) }
        \cup { << "a", NUL >>, << "/", "t", "m", "p", "/", "a", NUL >> }

\* Parent environments: at most MaxEnvVars variables set, among the six the
\* child is given and two it is not.
EnvNames ==
    { "PATH", "PYTHONPATH", "HOME", "TEMP", "TMP", "USERPROFILE",
      "AWS_SECRET_ACCESS_KEY", "LD_PRELOAD" }

EnvValues == { << "u" >>, << "v" >> }

Environs ==
    UNION { [names -> EnvValues] :
                names \in { S \in SUBSET EnvNames : Cardinality(S) <= MaxEnvVars } }

\* Three of them: nothing set; one variable the child is given; that one and
\* one the child is not given.
SomeEnvirons ==
    { << >>,
      [n \in { "PATH" } |-> << "u" >>],
      [n \in { "PATH", "LD_PRELOAD" } |-> IF n = "PATH" THEN << "u" >> ELSE << "v" >>] }

\* What a child can end with: its return code and what it wrote.
ChildResults ==
    { [returncode |-> 0, stdout |-> << "o" >>, stderr |-> << "e" >>],
      [returncode |-> 1, stdout |-> << "o" >>, stderr |-> << "e" >>] }

\* The calls of generate_diagram: names that stay inside the string
\* literal, that end it, that break the line, that put a call or an
\* attribute access into the header; output names likewise; a known and an
\* unknown pattern.
GenNames ==
    { << "a", ";", "a" >>,
      << "\"" >>,
      << "a", "\n", "a" >>,
      << "\"", "," >> \o Str_eval \o << "(", ")", ",", "\"" >>,
      << "\"", "," >> \o Str_x \o << "(", ")", ",", "\"" >>,
      << "\"", "." >> \o Str_class \o << ",", "\"" >> }

GenOutputs ==
    { << "a" >>, << ".", ".", "/", "a" >>, << "a", "\n", "a" >>, Str_link, << >>,
      << "a", NUL >> }

GenPatterns == { "api-led", "multi-region", "no-such-pattern" }

GenFileSystems ==
    { f \in FileSystems : f.home = << Str_home >> /\ << Str_tmp >> \notin DOMAIN f.links }

\* ------------------------------------------------------------------------
\* Init
\* ------------------------------------------------------------------------

\* No CodeValidator has been made.
NoValidator == [errors |-> << >>, before |-> << >>]

NoResult == [success |-> FALSE, kind |-> "none", detail |-> << >>]

\* The module is loaded, with its tables apart from ALLOWED_IMPORTS, and no
\* function has been called.
Loaded ==
    /\ blocked_builtins = BLOCKED_BUILTINS
    /\ blocked_attributes = BLOCKED_ATTRIBUTES
    /\ blocked_imports = BLOCKED_IMPORTS
    /\ allowed_output_dirs = ALLOWED_OUTPUT_DIRS
    /\ fn = "none"
    /\ pc = "idle"
    /\ arg = << >>
    /\ ret = << >>
    /\ code = << >>
    /\ errors = << >>
    /\ result = NoResult
    /\ temp_path = 0
    /\ file_text = << >>
    /\ temp_files = {}
    /\ made = {}
    /\ children = << >>
    /\ environ = << >>
    /\ filesystem = [cwd |-> << Str_work >>, home |-> << Str_home >>, links |-> << >>]
    /\ safe_name = << >>
    /\ safe_output = << >>
    /\ exit_status = -1
    /\ steps = << >>
    /\ validator = NoValidator

Init ==
    /\ allowed_imports = ALLOWED_IMPORTS
    /\ Loaded

\* A call has ended: it returned, raised, or left through sys.exit.
Ended == pc \in { "returned", "raised", "exited" }

\* A call of f with argument a begins.
Begin(f, a) ==
    /\ pc = "idle"
    /\ fn' = f
    /\ arg' = a
    /\ UNCHANGED << policy, errors, result, temp_path, file_text, temp_files,
                    made, children, environ, gen_locals, exit_status, steps >>

\* The call that ended is over: its locals are gone, and what it read of
\* the process environment and of the file system is read anew by the next
\* call. The temporary files on disk stay.
call_over ==
    /\ Ended
    /\ pc' = "idle"
    /\ fn' = "none"
    /\ arg' = << >>
    /\ ret' = << >>
    /\ code' = << >>
    /\ errors' = << >>
    /\ result' = NoResult
    /\ temp_path' = 0
    /\ file_text' = << >>
    /\ made' = {}
    /\ children' = << >>
    /\ environ' = << >>
    /\ filesystem' = [cwd |-> << Str_work >>, home |-> << Str_home >>, links |-> << >>]
    /\ safe_name' = << >>
    /\ safe_output' = << >>
    /\ exit_status' = -1
    /\ steps' = << >>
    /\ UNCHANGED << policy, temp_files >>

\* The call is over and the CodeValidator it made, to which nothing refers
\* any more, has been collected.
Finish == call_over /\ validator' = NoValidator

\* The call is over and the CodeValidator it made is still in memory.
FinishUncollected == call_over /\ UNCHANGED validator

\* ------------------------------------------------------------------------
\* Calls of the functions that return at once
\* ------------------------------------------------------------------------

\* validate_code(code) is called with one of these texts: a CodeValidator
\* is made, validate runs on it, and its errors list is what is returned.
call_validate_code(codes) ==
    \E c \in codes :
        /\ Begin("validate_code", c)
        /\ IF validate_raises(c)
           THEN pc' = "raised" /\ UNCHANGED ret /\ validator' = validator_raised(validator)
           ELSE /\ validator' = validator_after(c, validator)
                /\ ret' = is_valid_and_errors(validator_after(c, validator).errors)
                /\ pc' = "returned"
        /\ UNCHANGED << code, filesystem >>

CallValidateCode == call_validate_code(Codes)

CallSanitizeName ==
    \E name \in NameInputs :
        /\ Begin("sanitize_name", name)
        /\ ret' = sanitize_name(name)
        /\ pc' = "returned"
        /\ UNCHANGED << code, filesystem, validator >>

CallSanitizeOutput ==
    \E output \in OutputInputs :
        /\ Begin("sanitize_output", output)
        /\ ret' = sanitize_output(output)
        /\ pc' = "returned"
        /\ UNCHANGED << code, filesystem, validator >>

\* validate_output_path is called with a path, on the file system as it is
\* then, and returns its verdict.
CallValidateOutputPath ==
    \E output_path \in PathInputs, f \in FileSystems :
        /\ Begin("validate_output_path", output_path)
        /\ filesystem' = f
        /\ pc' = "validate_output_path"
        /\ UNCHANGED << code, ret, validator >>

ReturnValidateOutputPath ==
    /\ pc = "validate_output_path"
    /\ fn = "validate_output_path"
    /\ IF resolve_raises(arg)
       THEN pc' = "raised" /\ UNCHANGED ret
       ELSE ret' = validate_output_path(arg) /\ pc' = "returned"
    /\ UNCHANGED << policy, validator, fn, arg, exec_locals, gen_locals, temp_files, environ,
                    filesystem, exit_status, steps >>

\* ------------------------------------------------------------------------
\* execute_diagram_code
\* ------------------------------------------------------------------------

Success(out) == [success |-> TRUE, kind |-> "stdout", detail |-> out]
Failure(kind, detail) == [success |-> FALSE, kind |-> kind, detail |-> detail]

\* No CompletedProcess: the child has not ended by itself.
NotCompleted == [returncode |-> 0, stdout |-> << >>, stderr |-> << >>]

\* A return statement of execute_diagram_code with this value: to the
\* caller of the function, or to generate_diagram when it made the call.
exec_return(value) ==
    /\ result' = value
    /\ IF fn = "generate_diagram"
       THEN pc' = "gen_result" /\ ret' = ret
       ELSE pc' = "returned" /\ ret' = value

\* execute_diagram_code(code) is called with one of these texts.
exec_call(codes) ==
    \E c \in codes :
        /\ Begin("execute_diagram_code", c)
        /\ code' = c
        /\ pc' = "exec_validate"
        /\ UNCHANGED << ret, filesystem, validator >>

ExecCall == exec_call(Codes)

\* ExecValidate without the return on findings: the code goes on to the
\* temporary file whatever validate_code says.
ExecValidateIgnoringFindings ==
    /\ pc = "exec_validate"
    /\ errors' = validate_code(code).errors
    /\ validator' = validator_after(code, validator)
    /\ pc' = "exec_write"
    /\ steps' = Append(steps, "validate_code")
    /\ UNCHANGED << policy, fn, arg, ret, code, result, temp_path, file_text,
                    temp_files, made, children, environ, filesystem, gen_locals,
                    exit_status >>

\* is_valid, errors = v; return the findings when there are any.
exec_validated(v) ==
    /\ errors' = v.errors
    /\ IF ~v.is_valid
       THEN exec_return(Failure("Code validation failed", v.errors))
       ELSE pc' = "exec_write" /\ UNCHANGED << ret, result >>

\* First validate the code. An exception of validate_code leaves
\* execute_diagram_code as well.
ExecValidate ==
    /\ pc = "exec_validate"
    /\ IF validate_raises(code)
       THEN /\ pc' = "raised"
            /\ validator' = validator_raised(validator)
            /\ UNCHANGED << errors, ret, result >>
       ELSE /\ validator' = validator_after(code, validator)
            /\ exec_validated(is_valid_and_errors(validator_after(code, validator).errors))
    /\ steps' = Append(steps, "validate_code")
    /\ UNCHANGED << policy, fn, arg, code, temp_path, file_text, temp_files, made,
                    children, environ, filesystem, gen_locals, exit_status >>

\* The name NamedTemporaryFile gives a new file.
fresh_name == CHOOSE n \in 1..(Cardinality(temp_files) + 1) : n \notin temp_files

\* Write code to temporary file. The file cannot be created (the exception
\* leaves the function), or it is created and the write fails (the with
\* block closes the file, which delete=False keeps, and the exception leaves
\* the function with temp_path unbound), or the code is written.
ExecWriteTemp ==
    /\ pc = "exec_write"
    /\ \/ /\ pc' = "raised"
          /\ UNCHANGED << temp_files, made, file_text, temp_path >>
       \/ /\ Cardinality(temp_files) < MaxTempFiles
          /\ temp_files' = temp_files \cup { fresh_name }
          /\ made' = made \cup { fresh_name }
          /\ \/ /\ \E k \in 0..(Len(code) - 1) : file_text' = SubSeq(code, 1, k)
                /\ pc' = "raised"
                /\ UNCHANGED temp_path
             \/ /\ file_text' = code
                /\ temp_path' = fresh_name
                /\ pc' = "exec_run"
    /\ steps' = Append(steps, "write")
    /\ UNCHANGED << policy, validator, fn, arg, ret, code, errors, result, children, environ,
                    filesystem, gen_locals, exit_status >>

\* Execute in subprocess with minimal environment: the env dict is built
\* from os.environ, which is one of `environs`; subprocess.run starts the
\* child on the temporary file, or raises because it cannot.
exec_spawn(environs) ==
    /\ pc = "exec_run"
    /\ \E e \in environs :
        /\ environ' = e
        /\ \/ /\ children' = Append(children,
                                    [ script |-> file_text, env |-> child_env(e),
                                      cwd |-> filesystem.cwd, state |-> "running",
                                      completed |-> NotCompleted ])
              /\ pc' = "exec_wait"
              /\ UNCHANGED result
           \/ /\ result' = Failure("Execution failed", << >>)
              /\ pc' = "exec_finally"
              /\ UNCHANGED children
    /\ steps' = Append(steps, "run")
    /\ UNCHANGED << policy, validator, fn, arg, ret, code, errors, temp_path, file_text,
                    temp_files, made, filesystem, gen_locals, exit_status >>

ExecSpawn == exec_spawn(SomeEnvirons)

\* The child subprocess.run is waiting for comes to this state, with this
\* CompletedProcess when it has ended by itself.
child_becomes(state, completed) ==
    [children EXCEPT ![Len(children)].state = state,
                     ![Len(children)].completed = completed]

\* ChildExit with the return code left unread: stdout is returned as a
\* success whatever the child ended with.
ChildExitAnyReturncode ==
    /\ pc = "exec_wait"
    /\ \E r \in ChildResults :
        /\ result' = Success(r.stdout)
        /\ children' = child_becomes("exited", r)
    /\ pc' = "exec_finally"
    /\ UNCHANGED << policy, validator, fn, arg, ret, code, errors, temp_path, file_text,
                    temp_files, made, environ, filesystem, gen_locals, exit_status,
                    steps >>

\* The child ends within the timeout: stdout on return code 0, stderr
\* otherwise.
ChildExit ==
    /\ pc = "exec_wait"
    /\ \E r \in ChildResults :
        /\ result' = IF r.returncode = 0
                     THEN Success(r.stdout)
                     ELSE Failure("Execution error", r.stderr)
        /\ children' = child_becomes("exited", r)
    /\ pc' = "exec_finally"
    /\ UNCHANGED << policy, validator, fn, arg, ret, code, errors, temp_path, file_text,
                    temp_files, made, environ, filesystem, gen_locals, exit_status,
                    steps >>

\* The child does not end within the timeout: subprocess.run kills it and
\* raises TimeoutExpired.
ChildTimeout ==
    /\ pc = "exec_wait"
    /\ result' = Failure("Execution timed out", << EXECUTION_TIMEOUT >>)
    /\ children' = child_becomes("killed on timeout", NotCompleted)
    /\ pc' = "exec_finally"
    /\ UNCHANGED << policy, validator, fn, arg, ret, code, errors, temp_path, file_text,
                    temp_files, made, environ, filesystem, gen_locals, exit_status,
                    steps >>

\* subprocess.run raises another exception while the child runs (its output
\* is no text in the locale's encoding, say): it kills the child, and the
\* function's `except Exception` answers.
RunRaises ==
    /\ pc = "exec_wait"
    /\ result' = Failure("Execution failed", << >>)
    /\ children' = child_becomes("killed", NotCompleted)
    /\ pc' = "exec_finally"
    /\ UNCHANGED << policy, validator, fn, arg, ret, code, errors, temp_path, file_text,
                    temp_files, made, environ, filesystem, gen_locals, exit_status,
                    steps >>

\* finally: clean up temporary file. unlink removes it, or raises and the
\* bare except passes; then the pending return value is returned.
ExecCleanup ==
    /\ pc = "exec_finally"
    /\ \/ /\ temp_files' = temp_files \ { temp_path }
          /\ steps' = Append(steps, "unlink")
       \/ /\ UNCHANGED temp_files
          /\ steps' = Append(steps, "unlink failed")
    /\ exec_return(result)
    /\ UNCHANGED << policy, validator, fn, arg, code, errors, temp_path, file_text, made,
                    children, environ, filesystem, gen_locals, exit_status >>

\* ------------------------------------------------------------------------
\* generate_diagram
\* ------------------------------------------------------------------------

\* sys.exit(1)
sys_exit ==
    /\ exit_status' = 1
    /\ pc' = "exited"

\* generate_diagram(name, pattern, output) is called, on the file system as
\* it is then.
GenCall ==
    \E name \in GenNames, pattern \in GenPatterns, output \in GenOutputs,
       f \in GenFileSystems :
        /\ Begin("generate_diagram",
                 [name |-> name, pattern |-> pattern, output |-> output])
        /\ filesystem' = f
        /\ pc' = "gen_pattern"
        /\ UNCHANGED << code, ret, validator >>

\* if pattern not in PATTERNS: ... sys.exit(1)
GenCheckPattern ==
    /\ pc = "gen_pattern"
    /\ IF arg.pattern \notin DOMAIN PATTERNS
       THEN sys_exit
       ELSE pc' = "gen_sanitize" /\ UNCHANGED exit_status
    /\ steps' = Append(steps, "pattern")
    /\ UNCHANGED << policy, validator, fn, arg, ret, exec_locals, temp_files, environ,
                    filesystem, gen_locals >>

\* Sanitize inputs.
GenSanitize ==
    /\ pc = "gen_sanitize"
    /\ safe_name' = sanitize_name(arg.name)
    /\ safe_output' = sanitize_output(arg.output)
    /\ pc' = "gen_path"
    /\ steps' = Append(steps, "sanitize")
    /\ UNCHANGED << policy, validator, fn, arg, ret, exec_locals, temp_files, environ,
                    filesystem, exit_status >>

\* GenValidatePath with the verdict left unread: the run goes on to render
\* the template whatever validate_output_path returns.
GenValidatePathIgnoringVerdict ==
    /\ pc = "gen_path"
    /\ IF resolve_raises(safe_output)
       THEN pc' = "raised"
       ELSE pc' = "gen_render"
    /\ steps' = Append(steps, "validate_output_path")
    /\ UNCHANGED << policy, validator, fn, arg, ret, exec_locals, temp_files, environ,
                    filesystem, gen_locals, exit_status >>

\* Validate output path.
GenValidatePath ==
    /\ pc = "gen_path"
    /\ IF resolve_raises(safe_output)
       THEN pc' = "raised" /\ UNCHANGED exit_status
       ELSE IF ~validate_output_path(safe_output).is_valid
       THEN sys_exit
       ELSE pc' = "gen_render" /\ UNCHANGED exit_status
    /\ steps' = Append(steps, "validate_output_path")
    /\ UNCHANGED << policy, validator, fn, arg, ret, exec_locals, temp_files, environ,
                    filesystem, gen_locals >>

\* code = template.format(...); execute_diagram_code(code) is called.
GenRender ==
    /\ pc = "gen_render"
    /\ code' = format(arg.pattern, safe_name, safe_output)
    /\ pc' = "exec_validate"
    /\ steps' = Append(steps, "format")
    /\ UNCHANGED << policy, validator, fn, arg, ret, errors, result, temp_path, file_text,
                    temp_files, made, children, environ, filesystem, gen_locals,
                    exit_status >>

\* if success: print(...) else: print(...); sys.exit(1)
GenResult ==
    /\ pc = "gen_result"
    /\ IF result.success
       THEN pc' = "returned" /\ UNCHANGED exit_status
       ELSE sys_exit
    /\ UNCHANGED << policy, validator, fn, arg, ret, exec_locals, temp_files, environ,
                    filesystem, gen_locals, steps >>

\* ------------------------------------------------------------------------
\* The specification
\* ------------------------------------------------------------------------

Next ==
    \/ CallValidateCode
    \/ CallSanitizeName
    \/ CallSanitizeOutput
    \/ CallValidateOutputPath
    \/ ReturnValidateOutputPath
    \/ ExecCall
    \/ ExecValidate
    \/ ExecWriteTemp
    \/ ExecSpawn
    \/ ChildExit
    \/ ChildTimeout
    \/ RunRaises
    \/ ExecCleanup
    \/ GenCall
    \/ GenCheckPattern
    \/ GenSanitize
    \/ GenValidatePath
    \/ GenRender
    \/ GenResult
    \/ Finish

Spec == Init /\ [][Next]_vars

\* execute_diagram_code alone, called with few texts, in every parent
\* environment of Environs.
ExecCallFew == exec_call(FewCodes)

ExecSpawnAnyEnviron == exec_spawn(Environs)

NextEnviron ==
    \/ ExecCallFew
    \/ ExecValidate
    \/ ExecWriteTemp
    \/ ExecSpawnAnyEnviron
    \/ ChildExit
    \/ ChildTimeout
    \/ RunRaises
    \/ ExecCleanup
    \/ Finish

SpecEnviron == Init /\ [][NextEnviron]_vars

\* ------------------------------------------------------------------------
\* The import check under other allow-lists
\* ------------------------------------------------------------------------
\* ALLOWED_IMPORTS holds no name whose first segment is in BLOCKED_IMPORTS,
\* so with the tables as they are the order of the two checks of
\* _is_allowed_import cannot be seen. Here the allow-list is the table, or
\* nothing, with any of these names added: a deny-listed module, submodules
\* of it, and a module that is in neither table.

Str_os_x == str_join(<< Str_os, Str_x >>, << "." >>)
Str_os_diagrams == str_join(<< Str_os, Str_diagrams >>, << "." >>)

ExtraAllowed == { Str_os, Str_os_x, Str_os_diagrams, Str_x }

AllowLists ==
    { base \cup extra : base \in { ALLOWED_IMPORTS, {} }, extra \in SUBSET ExtraAllowed }

InitPolicy ==
    /\ allowed_imports \in AllowLists
    /\ Loaded

\* CodeValidator()._is_allowed_import(module_name)
CallIsAllowedImport ==
    \E module_name \in ModuleNames :
        /\ Begin("_is_allowed_import", module_name)
        /\ ret' = is_allowed_import(module_name)
        /\ pc' = "returned"
        /\ UNCHANGED << code, filesystem, validator >>

NextPolicy ==
    \/ CallIsAllowedImport
    \/ CallValidateCode
    \/ Finish

SpecPolicy == InitPolicy /\ [][NextPolicy]_vars
\* ------------------------------------------------------------------------
\* Calls of validate_code and execute_diagram_code one after another
\* ------------------------------------------------------------------------
\* The CodeValidator of a call stays in memory after the call, so that what
\* the next call makes of it can be seen.

\* Texts for these calls: one that is accepted, three that are refused, each
\* with another finding, and one on which the walk raises.
CallCodes ==
    { << Import(<< Str_diagrams >>) >>,
      << Import(<< Str_os >>) >>,
      << Block("Expr", << Call(Name(Str_eval), << >>) >>) >>,
      << BadSyntax >>,
      << DeepStmt >> }

CallValidateCodeSome == call_validate_code(CallCodes)

ExecCallSome == exec_call(CallCodes)

NextCalls ==
    \/ CallValidateCodeSome
    \/ ExecCallSome
    \/ ExecValidate
    \/ ExecWriteTemp
    \/ ExecSpawn
    \/ ChildExit
    \/ ChildTimeout
    \/ RunRaises
    \/ ExecCleanup
    \/ FinishUncollected

SpecCalls == Init /\ [][NextCalls]_vars
\* ------------------------------------------------------------------------
\* Properties of the import check
\* ------------------------------------------------------------------------

\* The module names the import statements of a parsed text name: each name
\* of an `import`, and the module of a `from ... import`.
imported_modules(tree) ==
    UNION { IF n.type = "Import" THEN Range(n.names)
            ELSE IF n.type = "ImportFrom" /\ n.module # << >> THEN { n.module }
            ELSE {} : n \in ast_walk(tree) }

\* The first dotted segment of a module name.
base_of(module_name) == str_split(module_name, ".")[1]

\* C2: deny takes precedence over allow. Whatever the allow-list holds, a
\* module name whose first dotted segment is in BLOCKED_IMPORTS is refused by
\* _is_allowed_import, and a text that parses and names such a module in an
\* import statement (`import M`, M alone or among several names, or
\* `from M import Y`) gets is_valid = False with a blocked-import finding for
\* M.
C2_DenyBeforeAllow ==
    /\ fn = "_is_allowed_import" /\ pc = "returned" /\ base_of(arg) \in blocked_imports
          => ret = FALSE
    /\ fn = "validate_code" /\ pc = "returned" /\ ast_parse(arg).ok
          => \A m \in imported_modules(ast_parse(arg).tree) :
                base_of(m) \in blocked_imports
                  => /\ ~ret.is_valid
                     /\ BlockedImport(m) \in Range(ret.errors)

\* validate_code has refused `import diagrams, os` although os is in the
\* allow-list as well as in BLOCKED_IMPORTS.
C2_DeniedThoughAllowed ==
    /\ fn = "validate_code"
    /\ pc = "returned"
    /\ Str_os \in allowed_imports
    /\ arg = << Import(<< Str_diagrams, Str_os >>) >>
    /\ ~ret.is_valid
    /\ BlockedImport(Str_os) \in Range(ret.errors)

\* module_name is an entry of the allow-list or a submodule of one: the
\* dotted segments of some entry are the first segments of module_name.
entry_or_submodule(module_name) ==
    \E allowed \in allowed_imports :
        LET entry == str_split(allowed, ".")
            segments == str_split(module_name, ".")
        IN  /\ Len(entry) <= Len(segments)
            /\ SubSeq(segments, 1, Len(entry)) = entry

\* C3: a module name whose first segment is not deny-listed passes
\* _is_allowed_import if and only if it equals an allow-list entry or is an
\* entry followed by a dot and more; a name that only has an entry as a bare
\* string prefix, or that matches no entry, is refused, and validate_code
\* reports a blocked import for exactly the refused names of a text that
\* parses.
C3_DotBoundary ==
    /\ fn = "_is_allowed_import" /\ pc = "returned" /\ base_of(arg) \notin blocked_imports
          => (ret <=> entry_or_submodule(arg))
    /\ fn = "validate_code" /\ pc = "returned" /\ ast_parse(arg).ok
          => \A m \in imported_modules(ast_parse(arg).tree) :
                base_of(m) \notin blocked_imports
                  => (BlockedImport(m) \in Range(ret.errors) <=> ~entry_or_submodule(m))

\* _is_allowed_import has refused diagramsx while diagrams is allow-listed
\* and diagramsx is not.
C3_BarePrefixRefused ==
    /\ fn = "_is_allowed_import"
    /\ pc = "returned"
    /\ arg = Str_diagramsx
    /\ Str_diagrams \in allowed_imports
    /\ Str_diagramsx \notin blocked_imports
    /\ ret = FALSE

\* The module names an import statement hands to _is_allowed_import: every
\* alias of an `import`, and the module of a `from ... import` when
\* node.module is not empty.
import_checks(node) ==
    IF node.type = "Import" THEN node.names
    ELSE IF Len(node.module) > 0 THEN << node.module >>
    ELSE << >>

\* The import statements of a tree, at any depth.
import_statements(tree) == { n \in ast_walk(tree) : n.type \in { "Import", "ImportFrom" } }

\* C12: no import statement escapes the import check. A text gets
\* is_valid = True only if every import statement of its tree, at any depth
\* and in every form, the relative `from . import Y` without a module name
\* included, had a module checked by _is_allowed_import and every module
\* checked was accepted.
C12_EveryImportChecked ==
    fn = "validate_code" /\ pc = "returned" /\ ret.is_valid =>
        \A n \in import_statements(ast_parse(arg).tree) :
            /\ import_checks(n) # << >>
            /\ \A i \in DOMAIN import_checks(n) : is_allowed_import(import_checks(n)[i])

\* validate_code has accepted a text that holds `from . import Y`: the
\* statement has no module name and nothing of it was checked.
C12_ModulelessImportAccepted ==
    /\ fn = "validate_code"
    /\ pc = "returned"
    /\ ret.is_valid
    /\ ImportFrom(<< >>, 1) \in import_statements(ast_parse(arg).tree)

\* The part of C12 the code keeps: in an accepted text every import
\* statement that names a module, at any depth, names only modules that
\* _is_allowed_import accepts.
C12_NamedImportsAccepted ==
    fn = "validate_code" /\ pc = "returned" /\ ret.is_valid =>
        \A n \in import_statements(ast_parse(arg).tree) :
            \A i \in DOMAIN import_checks(n) : is_allowed_import(import_checks(n)[i])

\* validate_code has refused a text for an `import os` inside a function,
\* a conditional or a try block.
C12_NestedImportRefused ==
    /\ fn = "validate_code"
    /\ pc = "returned"
    /\ arg = << Block("Try", << Import(<< Str_os >>) >>) >>
    /\ ret.errors = << BlockedImport(Str_os) >>
\* ------------------------------------------------------------------------
\* Properties of execute_diagram_code
\* ------------------------------------------------------------------------

\* The steps execute_diagram_code has taken in the call that is running.
ExecSteps ==
    SelectSeq(steps, LAMBDA s : s \in { "validate_code", "write", "run",
                                        "unlink", "unlink failed" })

\* validate_code returns (False, errors) for this text.
rejects(source) == ~validate_raises(source) /\ ~validate_code(source).is_valid

\* validate_code returns (True, []) for this text.
accepts(source) == ~validate_raises(source) /\ validate_code(source).is_valid

\* C1: execute_diagram_code runs validate_code on its code argument before
\* anything else; for code that validate_code rejects it returns
\* success=false with the findings as diagnostic, and has created no
\* temporary file and started no child; a result with success=true is only
\* returned for code that validate_code accepted, and the text written to the
\* temporary file and run by the child is exactly that code. When
\* validate_code raises, the exception leaves execute_diagram_code with no
\* file created and no child started either.
C1_ValidatedBeforeAnythingElse ==
    /\ ExecSteps # << >> => ExecSteps[1] = "validate_code"
    /\ "validate_code" \in Range(steps) /\ rejects(code) =>
          /\ result = Failure("Code validation failed", validate_code(code).errors)
          /\ validate_code(code).errors # << >>
          /\ ExecSteps = << "validate_code" >>
          /\ made = {} /\ children = << >>
          /\ fn = "execute_diagram_code" => pc = "returned" /\ ret = result
    /\ "validate_code" \in Range(steps) /\ validate_raises(code) =>
          /\ pc = "raised"
          /\ ExecSteps = << "validate_code" >>
          /\ made = {} /\ children = << >>
    /\ result.success =>
          /\ accepts(code)
          /\ file_text = code
          /\ Len(children) = 1 /\ children[1].script = code

\* execute_diagram_code has returned its refusal of a text that imports os.
C1_RejectedCodeReturned ==
    /\ fn = "execute_diagram_code"
    /\ pc = "returned"
    /\ Import(<< Str_os >>) \in Range(code)
    /\ ret = Failure("Code validation failed", << BlockedImport(Str_os) >>)
    /\ made = {}
    /\ children = << >>

\* execute_diagram_code is over: it has returned (to its caller, or to
\* generate_diagram) or an exception has left it.
ExecOver ==
    /\ "validate_code" \in Range(steps)
    /\ pc \in { "returned", "raised", "gen_result", "exited" }

\* C4: on every exit path of execute_diagram_code (validation failure,
\* failure while writing the code to the temporary file, spawn failure,
\* non-zero exit, timeout, success) no temporary file made by the call
\* exists once the call has returned or raised. Read for the calls in which
\* os.unlink did not itself fail, the one case in which the claim lets the
\* file stay.
C4_NoTempFileLeft ==
    ExecOver /\ "unlink failed" \notin Range(steps) => made \cap temp_files = {}

\* The call has raised while writing the code: the file it made is on disk,
\* with part of the code in it, and no unlink was tried.
C4_FileLeftByFailedWrite ==
    /\ fn = "execute_diagram_code"
    /\ pc = "raised"
    /\ made # {}
    /\ made \subseteq temp_files
    /\ file_text # code
    /\ "unlink" \notin Range(steps)
    /\ "unlink failed" \notin Range(steps)

\* A failure of os.unlink is swallowed: the result execute_diagram_code
\* returns is the one that was pending when the finally block began.
C4_CleanupNeverChangesResult ==
    [][pc = "exec_finally" => result' = result /\ pc' \in { "returned", "gen_result" }]_vars

\* The call was given code that validate_code accepts, and is over.
ValidCodeCallOver == ExecOver /\ errors = << >> /\ accepts(code)

\* C8: every call of execute_diagram_code whose code passes validation
\* starts exactly one child, never retries, and returns the one outcome that
\* child decides: return code zero gives success with the captured standard
\* output, another return code gives failure with the captured standard
\* error, no end within the timeout gives a killed child and a failure with
\* the timeout diagnostic. Read for the calls that returned a result.
C8_ExactlyOneChildDecides ==
    ValidCodeCallOver /\ pc # "raised" =>
        /\ Len(children) = 1
        /\ \/ /\ children[1].state = "exited"
              /\ children[1].completed.returncode = 0
              /\ result = Success(children[1].completed.stdout)
           \/ /\ children[1].state = "exited"
              /\ children[1].completed.returncode # 0
              /\ result = Failure("Execution error", children[1].completed.stderr)
           \/ /\ children[1].state = "killed on timeout"
              /\ result = Failure("Execution timed out", << EXECUTION_TIMEOUT >>)

\* C8 as the code has it: a call starts at most one child and never a
\* second one. When the code passed validation and the call returned, the
\* result is decided by that child when there is one and it ended or ran out
\* of time (return code zero: success with standard output; another return
\* code: failure with standard error; timeout: the child is killed and the
\* failure is the timeout diagnostic, which differs from the one of a
\* non-zero exit), and is the "Execution failed" failure when the child could
\* not be started (no child) or subprocess.run raised another exception (the
\* child is killed). When writing the temporary file raised, no child was
\* started.
C8_AtMostOneChildDecides ==
    /\ Len(children) <= 1
    /\ ValidCodeCallOver /\ pc = "raised" => children = << >>
    /\ ValidCodeCallOver /\ pc # "raised" =>
          \/ /\ children = << >>
             /\ result = Failure("Execution failed", << >>)
          \/ /\ Len(children) = 1
             /\ \/ /\ children[1].state = "exited"
                   /\ children[1].completed.returncode = 0
                   /\ result = Success(children[1].completed.stdout)
                \/ /\ children[1].state = "exited"
                   /\ children[1].completed.returncode # 0
                   /\ result = Failure("Execution error", children[1].completed.stderr)
                \/ /\ children[1].state = "killed on timeout"
                   /\ result = Failure("Execution timed out", << EXECUTION_TIMEOUT >>)
                \/ /\ children[1].state = "killed"
                   /\ result = Failure("Execution failed", << >>)

\* execute_diagram_code has returned "Execution failed" for valid code
\* without any child: subprocess.run could not start one.
C8_SpawnFailureReturned ==
    /\ fn = "execute_diagram_code"
    /\ pc = "returned"
    /\ validate_code(code).is_valid
    /\ "run" \in Range(steps)
    /\ children = << >>
    /\ ret = Failure("Execution failed", << >>)
\* ------------------------------------------------------------------------
\* Properties of the sanitizers
\* ------------------------------------------------------------------------

\* s holds two dots in a row.
has_dotdot(s) == \E i \in 1..(Len(s) - 1) : s[i] = "." /\ s[i + 1] = "."

\* C5: for every input, the result of sanitize_output holds none of the
\* characters / \ : * ? " < > | and no two dots in a row, has at most 100
\* characters, and is a fixed point of sanitize_output.
C5_OutputStemClean ==
    fn = "sanitize_output" /\ pc = "returned" =>
        /\ Range(ret) \cap { "/", "\\", ":", "*", "?", "\"", "<", ">", "|" } = {}
        /\ ~has_dotdot(ret)
        /\ Len(ret) <= 100
        /\ sanitize_output(ret) = ret

\* sanitize_output has returned for `./..`, whose dots come together only
\* when the slash is dropped: three dots in a row, of which one stays.
C5_DotsJoinedByRemoval ==
    /\ fn = "sanitize_output"
    /\ pc = "returned"
    /\ arg = << ".", "/", ".", "." >>
    /\ ret = << "." >>

\* The characters that end or break a double-quoted string literal.
LiteralBreakers == { "\"", "\\", "\n", "\r" }

\* C7: sanitize_name prevents injection into the generated code. The
\* sanitized name holds no double quote, no backslash and no line break, so
\* in the text generate_diagram renders it stays inside the literal of
\* Diagram("{name}", ...): the rendered text parses to the statements of the
\* template, the same as with the empty name.
C7_NameStaysInLiteral ==
    /\ fn = "sanitize_name" /\ pc = "returned" => Range(ret) \cap LiteralBreakers = {}
    /\ fn = "generate_diagram" /\ "format" \in Range(steps) =>
          /\ Range(safe_name) \cap LiteralBreakers = {}
          /\ ast_parse(code) = ast_parse(format(arg.pattern, << >>, safe_output))

\* generate_diagram has run, with success, a text in which the name `",x(),"`
\* closed the literal and added the call x() to the arguments of Diagram.
C7_InjectedCallRan ==
    /\ fn = "generate_diagram"
    /\ pc = "returned"
    /\ result.success
    /\ safe_name = << "\"", "," >> \o Str_x \o << "(", ")", ",", "\"" >>
    /\ Len(children) = 1
    /\ children[1].script = code
    /\ Call(Name(Str_x), << >>) \in ast_walk(ast_parse(code).tree)
    /\ Call(Name(Str_x), << >>)
          \notin ast_walk(ast_parse(format(arg.pattern, << >>, safe_output)).tree)
\* ------------------------------------------------------------------------
\* Properties of path confinement
\* ------------------------------------------------------------------------

\* path is root or lies below it, on a boundary of components: every
\* component of root is the component of path at the same place.
at_or_below(path, root) ==
    /\ Len(root) <= Len(path)
    /\ \A i \in DOMAIN root : path[i] = root[i]

\* The canonical directories output may go to: the current working
\* directory and the entries of ALLOWED_OUTPUT_DIRS, ~ expanded and links
\* followed.
canonical_roots ==
    { filesystem.cwd }
        \cup { resolve(expanduser(Path(allowed))) : allowed \in allowed_output_dirs }

\* What validate_output_path returned is the verdict for its argument: valid
\* exactly when the canonical path is at or below a root, and when not
\* valid, the message that lists ALLOWED_OUTPUT_DIRS.
verdict_is_confinement ==
    /\ ret.is_valid <=> \E root \in canonical_roots : at_or_below(resolve(Path(arg)), root)
    /\ ret.is_valid => ret.error = NoMessage
    /\ ~ret.is_valid => ret.error = NotAllowed /\ ret.error.dirs = ALLOWED_OUTPUT_DIRS

\* C6: validate_output_path(path) returns Allowed if and only if the
\* canonical form of path is equal to, or below on a component boundary,
\* the current working directory or one of the roots of
\* ALLOWED_OUTPUT_DIRS, and in every other case returns Denied with a
\* message that lists the roots.
C6_AllowedIffInsideARoot ==
    fn = "validate_output_path" /\ pc \in { "returned", "raised" } =>
        pc = "returned" /\ verdict_is_confinement

\* validate_output_path has raised, for a path that holds chr(0), instead of
\* returning a verdict.
C6_RaisedInsteadOfDenied ==
    /\ fn = "validate_output_path"
    /\ pc = "raised"
    /\ NUL \in Range(arg)

\* Whenever validate_output_path returns, its verdict is the one C6 states.
C6_VerdictWhenReturned ==
    fn = "validate_output_path" /\ pc = "returned" => verdict_is_confinement

\* /tmpx/tmp has been refused, on a file system without links: /tmpx is not
\* below /tmp.
C6_SiblingRefused ==
    /\ fn = "validate_output_path"
    /\ pc = "returned"
    /\ arg = str_join(<< << >>, Str_tmpx, Str_tmp >>, << "/" >>)
    /\ DOMAIN filesystem.links = {}
    /\ ~ret.is_valid

\* validate_output_path creates, deletes and writes no file.
C6_NoFileTouched ==
    [][fn = "validate_output_path" \/ fn' = "validate_output_path"
          => temp_files' = temp_files]_vars
\* ------------------------------------------------------------------------
\* Properties of generate_diagram
\* ------------------------------------------------------------------------

\* The steps of a run of generate_diagram that goes all the way.
PipelineSteps ==
    << "pattern", "sanitize", "validate_output_path", "format", "validate_code",
       "write", "run", "unlink" >>

\* The steps taken, a failed unlink counted as the unlink step.
steps_taken == [i \in DOMAIN steps |-> IF steps[i] = "unlink failed" THEN "unlink" ELSE steps[i]]

\* C9: in generate_diagram the steps run in the order sanitize, validate
\* output path, render template, static validation, execution (after the
\* lookup of the pattern); whenever the pattern is unknown, the output path
\* is denied, or the rendered code fails validation, no temporary file is
\* written and no child is started, and the run ends by sys.exit(1).
C9_PipelineOrder ==
    fn = "generate_diagram" =>
        /\ Len(steps_taken) <= Len(PipelineSteps)
        /\ steps_taken = SubSeq(PipelineSteps, 1, Len(steps_taken))
        /\ LET unknown == arg.pattern \notin DOMAIN PATTERNS
               denied == /\ "validate_output_path" \in Range(steps)
                         /\ ~resolve_raises(safe_output)
                         /\ ~validate_output_path(safe_output).is_valid
               invalid == /\ "validate_code" \in Range(steps)
                          /\ ~validate_code(code).is_valid
           IN  unknown \/ denied \/ invalid =>
                   /\ made = {}
                   /\ children = << >>
                   /\ "write" \notin Range(steps)
                   /\ pc \in { "gen_pattern", "gen_result", "exited" }
                   /\ pc = "exited" => exit_status = 1
                   /\ unknown => steps_taken \in { << >>, << "pattern" >> }
                   /\ denied => Len(steps_taken) = 3
                   /\ invalid => Len(steps_taken) = 5

\* generate_diagram has left through sys.exit(1) because the rendered code,
\* with a call of eval put in by the name, failed validation; nothing was
\* written or started.
C9_RejectedBeforeWriting ==
    /\ fn = "generate_diagram"
    /\ pc = "exited"
    /\ exit_status = 1
    /\ BlockedBuiltin(Str_eval) \in Range(errors)
    /\ steps = << "pattern", "sanitize", "validate_output_path", "format", "validate_code" >>
    /\ made = {}
    /\ children = << >>
\* ------------------------------------------------------------------------
\* Properties of the child's environment
\* ------------------------------------------------------------------------

\* The names of the variables the spec lets through to the child.
EnvAllowList == { "PATH", "PYTHONPATH", "HOME", "TEMP", "TMP", "USERPROFILE" }

\* Two parent environments that differ at most in variables outside the
\* allow-list.
same_on_allow_list(e1, e2) ==
    \A key \in EnvAllowList :
        /\ key \in DOMAIN e1 <=> key \in DOMAIN e2
        /\ key \in DOMAIN e1 => e1[key] = e2[key]

\* C10: the names of the variables handed to a child are among PATH,
\* PYTHONPATH, HOME, TEMP, TMP and USERPROFILE, each value is the parent's
\* value of that variable, or empty when the parent has none, and any parent
\* environment that differs from the actual one only outside those names
\* would have given the child the same environment.
C10_ChildEnvDefaultDeny ==
    \A i \in DOMAIN children :
        /\ DOMAIN children[i].env \subseteq EnvAllowList
        /\ \A key \in DOMAIN children[i].env :
               children[i].env[key] =
                   IF key \in DOMAIN environ THEN environ[key] ELSE << >>
        /\ \A other \in Environs :
               same_on_allow_list(environ, other) => child_env(other) = children[i].env

\* A child has been started by a parent that holds a secret and a search
\* path: the child has the search path and not the secret.
C10_SecretWithheld ==
    /\ children # << >>
    /\ "AWS_SECRET_ACCESS_KEY" \in DOMAIN environ
    /\ "PATH" \in DOMAIN environ
    /\ children[1].env.PATH = environ["PATH"]
    /\ children[1].env.HOME = << >>
    /\ "AWS_SECRET_ACCESS_KEY" \notin DOMAIN children[1].env
\* ------------------------------------------------------------------------
\* Properties of sanitize_name
\* ------------------------------------------------------------------------

\* The characters a display name keeps: the letters a-z and A-Z, the digits
\* 0-9, white space, hyphen, underscore, period, comma and ! ? ( ) ' ".
DisplayNameAllowSet ==
    Letters \cup Digits \cup Whitespace
        \cup { "-", "_", ".", ",", "!", "?", "(", ")", "'", "\"" }

\* The number of characters of the allow-set among the first i of s.
kept_upto(s, i) == Cardinality({ j \in 1..i : s[j] \in DisplayNameAllowSet })

\* C11: for every input, sanitize_name returns the characters of the input
\* that are in the allow-set, in their order and unchanged, every other
\* character dropped and nothing put in its place, cut to the first 200
\* characters of what was kept.
C11_NameFilteredThenCut ==
    fn = "sanitize_name" /\ pc = "returned" =>
        /\ Len(ret) = IF kept_upto(arg, Len(arg)) <= 200
                      THEN kept_upto(arg, Len(arg)) ELSE 200
        /\ \A i \in DOMAIN arg :
               arg[i] \in DisplayNameAllowSet /\ kept_upto(arg, i) <= 200 =>
                   ret[kept_upto(arg, i)] = arg[i]
        /\ Range(ret) \cap { ";", "$", "\\", E_ACUTE } = {}

\* sanitize_name has returned 200 letters for 199 letters, a semicolon and a
\* letter: the semicolon is dropped before the cut, so the letter behind it
\* is the 200th character of the result.
C11_SemicolonDroppedBeforeCut ==
    /\ fn = "sanitize_name"
    /\ pc = "returned"
    /\ arg = Pad(199) \o << ";", "a" >>
    /\ ret = Pad(200)
\* ------------------------------------------------------------------------
\* Properties of the builtin check
\* ------------------------------------------------------------------------

\* The name at the target of a call: the identifier of a bare name, the
\* attribute name of an attribute access, nothing for any other target.
target_names(call) ==
    IF call.func.type = "Name" THEN { call.func.id }
    ELSE IF call.func.type = "Attribute" THEN { call.func.attr }
    ELSE {}

\* The blocked names that stand at the target of a call of the tree.
blocked_call_targets(tree) ==
    UNION { target_names(n) \cap BLOCKED_BUILTINS : n \in { c \in ast_walk(tree) : c.type = "Call" } }

\* The names of the builtin findings among these findings.
builtin_findings(found) ==
    { found[i].name : i \in { j \in DOMAIN found : found[j].kind = "Blocked builtin call" } }

\* C13: for a text that parses, validate records a builtin finding for a
\* name exactly when that name is in BLOCKED_BUILTINS and stands at the
\* target of a call, as a bare name or as the attribute name of an attribute
\* access. A blocked name anywhere else, such as an argument, records no
\* builtin finding.
C13_BuiltinFindingIffCallTarget ==
    fn = "validate_code" /\ pc = "returned" /\ ast_parse(arg).ok =>
        builtin_findings(ret.errors) = blocked_call_targets(ast_parse(arg).tree)

\* validate_code has accepted print(eval): the blocked name is an argument,
\* not the target of the call.
C13_BlockedNameAsArgumentAccepted ==
    /\ fn = "validate_code"
    /\ pc = "returned"
    /\ arg = << Block("Expr", << Call(Name(Str_print), << Name(Str_eval) >>) >>) >>
    /\ Name(Str_eval) \in ast_walk(ast_parse(arg).tree)
    /\ ret.is_valid
    /\ ret.errors = << >>

\* validate_code has refused x.eval(): the attribute name at the target of
\* the call is a blocked builtin.
C13_MethodCallRefused ==
    /\ fn = "validate_code"
    /\ pc = "returned"
    /\ arg = << Block("Expr", << Call(Attribute(Name(Str_x), Str_eval), << >>) >>) >>
    /\ ret.errors = << BlockedBuiltin(Str_eval) >>

\* validate_code has accepted `x = eval` followed by `x()`: the blocked
\* builtin is called through another name, and no call has it as target.
C13_AliasCallAccepted ==
    /\ fn = "validate_code"
    /\ pc = "returned"
    /\ arg = << Block("Assign", << Name(Str_x), Name(Str_eval) >>),
                Block("Expr", << Call(Name(Str_x), << >>) >>) >>
    /\ ret.is_valid
    /\ ret.errors = << >>
\* ------------------------------------------------------------------------
\* Properties of validate as a whole
\* ------------------------------------------------------------------------

\* The findings the nodes of a tree call for, each node on its own: a
\* blocked-import finding for every module an import statement names and
\* _is_allowed_import refuses, a builtin finding for every blocked name at
\* the target of a call, an attribute finding for every attribute access
\* with a blocked attribute name, in read as in call position.
findings_due(tree) ==
    { BlockedImport(m) : m \in { n \in imported_modules(tree) : ~is_allowed_import(n) } }
        \cup { BlockedBuiltin(b) : b \in blocked_call_targets(tree) }
        \cup { BlockedAttribute(n.attr) :
                   n \in { a \in ast_walk(tree) : a.type = "Attribute"
                                                  /\ a.attr \in BLOCKED_ATTRIBUTES } }

\* What C14 says of a result of validate_code for this text.
collect_all(source, v) ==
    /\ ~ast_parse(source).ok => v.errors = << SyntaxErrorFinding >>
    /\ ast_parse(source).ok => Range(v.errors) = findings_due(ast_parse(source).tree)
    /\ v.is_valid <=> v.errors = << >>

\* C14: validate is collect-all except for syntax. Every call of
\* validate_code gives a result; for a text that does not parse it holds
\* the one syntax finding and nothing else; for a text that parses it holds
\* a finding for every violating import, call and attribute access anywhere
\* in the tree, those inside an already flagged node included, and
\* is_valid is true exactly when there is no finding.
C14_CollectAllExceptSyntax ==
    fn = "validate_code" /\ Ended =>
        /\ pc = "returned"
        /\ collect_all(arg, ret)

\* validate_code has raised instead of returning a result: the text parses,
\* imports os, and holds an expression too deep for the visitor.
C14_VisitorRaised ==
    /\ fn = "validate_code"
    /\ pc = "raised"
    /\ ast_parse(arg).ok
    /\ Import(<< Str_os >>) \in Range(arg)
    /\ DeepStmt \in Range(arg)

\* The part of C14 the code keeps: whenever validate_code returns, its
\* result is collect-all except for syntax.
C14_CollectAllWhenReturned ==
    fn = "validate_code" /\ pc = "returned" => collect_all(arg, ret)

\* validate_code has returned both findings of eval(x.__class__), the
\* attribute access inside the flagged call included, and the finding of an
\* import after it.
C14_NestedFindingsCollected ==
    /\ fn = "validate_code"
    /\ pc = "returned"
    /\ ret.errors = << BlockedBuiltin(Str_eval), BlockedAttribute(Str_class),
                       BlockedImport(Str_os) >>

\* validate_code has returned the one syntax finding for a text whose first
\* line imports os and whose second line does not parse.
C14_SyntaxShortCircuits ==
    /\ fn = "validate_code"
    /\ pc = "returned"
    /\ arg = << Import(<< Str_os >>), BadSyntax >>
    /\ ret.errors = << SyntaxErrorFinding >>
\* ------------------------------------------------------------------------
\* Properties of calls that follow one another
\* ------------------------------------------------------------------------

\* C15: invocations do not leak state into each other. In any sequence of
\* calls of validate_code and execute_diagram_code, whatever the calls
\* before found, the result of validate_code is the result its code alone
\* gives, in a direct call and in the call execute_diagram_code makes, the
\* findings of execute's refusal are those of its code alone, and the five
\* policy tables hold what they held when the module was loaded.
C15_CallsDoNotLeak ==
    /\ fn = "validate_code" /\ pc = "returned" => ret = validate_code(arg)
    /\ fn = "execute_diagram_code" /\ "validate_code" \in Range(steps)
         /\ ~validate_raises(code) =>
           /\ errors = validate_code(code).errors
           /\ rejects(code) => result = Failure("Code validation failed",
                                                validate_code(code).errors)
           /\ result.kind = "Code validation failed" => rejects(code)
    /\ policy = << ALLOWED_IMPORTS, BLOCKED_BUILTINS, BLOCKED_ATTRIBUTES,
                   BLOCKED_IMPORTS, ALLOWED_OUTPUT_DIRS >>

\* execute_diagram_code has run, with success, a text that is accepted,
\* right after a call whose validator held the finding of an import of os.
C15_AcceptedAfterRejection ==
    /\ fn = "execute_diagram_code"
    /\ pc = "returned"
    /\ ret.success
    /\ code = << Import(<< Str_diagrams >>) >>
    /\ validator.before = << BlockedImport(Str_os) >>
    /\ validator.errors = << >>
====
